---- MODULE Spec2Model ----
(***************************************************************************)
(* Record layout engine of lib/AST/RecordLayoutBuilder.cpp: the layout     *)
(* cache (ASTContext::getASTRecordLayout / getObjCLayout), the             *)
(* EmptySubobjectMap, the BaseSubobjectInfo graph, the Itanium             *)
(* RecordLayoutBuilder and the MicrosoftRecordLayoutBuilder.               *)
(*                                                                         *)
(* Sizes written "InBits" or held in FieldOffsets are bit counts; all      *)
(* other sizes and offsets are CharUnits, as in the source.                *)
(***************************************************************************)
EXTENDS Integers, Sequences, FiniteSets, TLC

VARIABLES
    ctx,        \* the ASTContext: target, language options, external source
    decls,      \* the declarations of the translation unit, by identity 1..n
    cache,      \* ASTContext::ASTRecordLayouts, one slot per declaration
    objcCache,  \* ASTContext::ObjCLayouts for the implementation keys
    stack,      \* the getASTRecordLayout / getObjCLayout calls in progress
    built,      \* history: how many times a builder ran for each key
    returned,   \* history: what the last completed top-level call returned
    diags,      \* the diagnostics reported so far
    KeyFunctions, \* ASTContext::KeyFunctions, one slot per declaration
    keyCall,    \* history: the last getCurrentKeyFunction call and its result
    offsetOf,   \* the clang_Type_getOffsetOf call in progress, or its result
    trial,      \* a trial-offset loop of the builder, one iteration per step
    vtor        \* a run of computeVtorDispSet, one loop iteration per step

\* the state outside the layout engine: the key functions, the libclang
\* query, the trial-offset loop and the vtordisp computation
clients == <<KeyFunctions, keyCall, offsetOf, trial, vtor>>

vars == <<ctx, decls, cache, objcCache, stack, built, returned, diags, clients>>

(***************************************************************************)
(* Arithmetic helpers                                                      *)
(***************************************************************************)
Max(a, b) == IF a >= b THEN a ELSE b

Min(a, b) == IF a <= b THEN a ELSE b

\* the value of a local variable that is initialised once and then read:
\* the member of a one-element set
Only(S) == CHOOSE x \in S : TRUE

\* llvm::RoundUpToAlignment and CharUnits::RoundUpToAlignment
RoundUpToAlignment(Value, Align) == ((Value + Align - 1) \div Align) * Align

CharWidth == 8

\* TargetInfo::getCharAlign
CharAlign == 8

toBits(chars) == chars * CharWidth

\* ASTContext::toCharUnitsFromBits: a truncating division
toCharUnitsFromBits(bits) == bits \div CharWidth

\* DenseMap::insert keeps the entry a key already has
MapInsert(f, k, v) == IF k \in DOMAIN f THEN f ELSE (k :> v) @@ f

\* DenseMap::operator[] assignment
MapSet(f, k, v) == (k :> v) @@ f

\* DenseMap::lookup returns a null value for a missing key
MapLookup(f, k) == IF k \in DOMAIN f THEN f[k] ELSE 0

EmptyMap == [x \in {} |-> 0]

SeqToSet(s) == {s[i] : i \in 1..Len(s)}

(***************************************************************************)
(* Declarations and types.  A declaration is named by its position in      *)
(* decls; a base or a member of record type names an earlier position, so  *)
(* a complete type never contains itself.                                  *)
(***************************************************************************)
\* a builtin scalar type of the given width and alignment in bits
BuiltinType(w, a) ==
    [k |-> "builtin", ek |-> "none", size |-> w, align |-> a, rec |-> 0, n |-> 0]

\* the type of a complete record
RecordType(D) ==
    [k |-> "record", ek |-> "none", size |-> 0, align |-> 0, rec |-> D, n |-> 0]

\* T[n] with T a builtin scalar
BuiltinArrayType(w, a, cnt) ==
    [k |-> "array", ek |-> "builtin", size |-> w, align |-> a, rec |-> 0, n |-> cnt]

\* D[n] with D a record
RecordArrayType(D, cnt) ==
    [k |-> "array", ek |-> "record", size |-> 0, align |-> 0, rec |-> D, n |-> cnt]

\* T[] with T a builtin scalar, the flexible array member
IncompleteArrayType(w, a) ==
    [k |-> "incarray", ek |-> "builtin", size |-> w, align |-> a, rec |-> 0, n |-> 0]

\* T& : laid out as a pointer
ReferenceType ==
    [k |-> "ref", ek |-> "none", size |-> 0, align |-> 0, rec |-> 0, n |-> 0]

NotBitField == 0 - 1

\* a FieldDecl (or ObjCIvarDecl); width is NotBitField for a plain member,
\* loc tells whether getLocation() is a valid source location
FieldDecl(T, width, isNamed) ==
    [type |-> T, width |-> width, named |-> isNamed, packed |-> FALSE, aligned |-> 0,
     loc |-> TRUE]

PlainField(T) == FieldDecl(T, NotBitField, TRUE)

\* a CXXBaseSpecifier
BaseSpecifier(D, isVirtual) == [cls |-> D, virt |-> isVirtual]

\* a RecordDecl / CXXRecordDecl / ObjCInterfaceDecl / ObjCImplementationDecl
RecordDecl(bs, fs) ==
    [kind |-> "record", isUnion |-> FALSE, bases |-> bs, fields |-> fs,
     methods |-> <<>>, hasUserDeclaredCtorOrDtor |-> FALSE,
     packed |-> FALSE, maxFieldAlign |-> 0, aligned |-> 0,
     msStruct |-> FALSE, mac68k |-> FALSE, super |-> 0, synth |-> 0]

\* a CXXMethodDecl; overridden holds <<class, method number>> pairs
CXXMethodDecl(isVirtual, isDtor, overridden) ==
    [isVirtual |-> isVirtual, isDtor |-> isDtor, overridden |-> overridden]

isBitField(FD) == FD.width # NotBitField

isUnnamedBitfield(FD) == isBitField(FD) /\ ~FD.named

isRecord(D) == decls[D].kind = "record"

\* in C++ every RecordDecl is a CXXRecordDecl, in C none is
isCXXRecord(D) == isRecord(D) /\ ctx.CPlusPlus

RECURSIVE getVBases(_), VBasesFrom(_, _, _), AppendNew(_, _, _)

\* append the entries of s, from position i on, that acc does not hold yet
AppendNew(acc, s, i) ==
    IF i > Len(s) THEN acc
    ELSE AppendNew(IF s[i] \in SeqToSet(acc) THEN acc ELSE Append(acc, s[i]), s, i + 1)

VBasesFrom(D, i, acc) ==
    IF i > Len(decls[D].bases) THEN acc
    ELSE LET B == decls[D].bases[i]
             acc1 == AppendNew(acc, getVBases(B.cls), 1)
             acc2 == IF B.virt THEN AppendNew(acc1, <<B.cls>>, 1) ELSE acc1
         IN VBasesFrom(D, i + 1, acc2)

\* CXXRecordDecl::vbases_begin..vbases_end: every virtual base, direct or
\* indirect, in the order the bases are added to the class
getVBases(D) == VBasesFrom(D, 1, <<>>)

getNumVBases(D) == Len(getVBases(D))

hasVirtualMethod(D) == \E i \in 1..Len(decls[D].methods) : decls[D].methods[i].isVirtual

RECURSIVE isPolymorphic(_)
\* CXXRecordDecl::isPolymorphic: declares or inherits a virtual function
isPolymorphic(D) ==
    \/ hasVirtualMethod(D)
    \/ \E i \in 1..Len(decls[D].bases) : isPolymorphic(decls[D].bases[i].cls)

isDynamicClass(D) == isPolymorphic(D) \/ getNumVBases(D) # 0

RECURSIVE isEmpty(_)
\* CXXRecordDecl::isEmpty: no member other than unnamed bit-fields, no
\* virtual function, no virtual base, and only empty bases
isEmpty(D) ==
    /\ ~hasVirtualMethod(D)
    /\ \A i \in 1..Len(decls[D].fields) : isUnnamedBitfield(decls[D].fields[i])
    /\ \A i \in 1..Len(decls[D].bases) :
          ~decls[D].bases[i].virt /\ isEmpty(decls[D].bases[i].cls)

RECURSIVE isPOD(_)
\* CXXRecordDecl::isPOD (C++03): an aggregate without bases, virtual
\* functions or user-provided special members whose members are all POD
isPOD(D) ==
    /\ decls[D].bases = <<>>
    /\ ~hasVirtualMethod(D)
    /\ ~decls[D].hasUserDeclaredCtorOrDtor
    /\ \A i \in 1..Len(decls[D].fields) :
          LET T == decls[D].fields[i].type
          IN /\ T.k # "ref"
             /\ (T.rec # 0 => isPOD(T.rec))

RECURSIVE isTrivialStandardLayout(_)
\* CXXRecordDecl::isTrivial() && isStandardLayout() (C++11), for the
\* declarations modelled here: members in one class of the hierarchy only
isTrivialStandardLayout(D) ==
    /\ ~hasVirtualMethod(D)
    /\ ~decls[D].hasUserDeclaredCtorOrDtor
    /\ getNumVBases(D) = 0
    /\ \A i \in 1..Len(decls[D].bases) :
          /\ isTrivialStandardLayout(decls[D].bases[i].cls)
          /\ (decls[D].fields = <<>> \/ isEmpty(decls[D].bases[i].cls))
    /\ \A i \in 1..Len(decls[D].fields) :
          LET T == decls[D].fields[i].type
          IN /\ T.k # "ref"
             /\ (T.rec # 0 => isTrivialStandardLayout(T.rec))

(***************************************************************************)
(* ASTRecordLayout as stored in the cache, and type sizes                  *)
(***************************************************************************)
NoLayout == [kind |-> "none"]

\* a faulty cache lookup that never finds an entry
NeverCached(D) == FALSE

hasLayout(D) == cache[D].kind # "none"

\* ASTContext::getTypeInfo: <<width, alignment>> in bits
getTypeInfo(T) ==
    LET EltW == IF T.ek = "record" THEN toBits(cache[T.rec].Size) ELSE T.size
        EltA == IF T.ek = "record" THEN toBits(cache[T.rec].Alignment) ELSE T.align
    IN CASE T.k = "builtin"  -> <<T.size, T.align>>
         [] T.k = "record"   -> <<toBits(cache[T.rec].Size), toBits(cache[T.rec].Alignment)>>
         [] T.k = "array"    -> <<EltW * T.n, EltA>>
         [] T.k = "incarray" -> <<0, EltA>>
         [] T.k = "ref"      -> <<ctx.PointerWidth, ctx.PointerAlign>>

\* getBaseElementType(T)->getAs<RecordType>(): the record under any array
\* type, 0 when there is none
getBaseElementRecord(T) == T.rec

(***************************************************************************)
(* EmptySubobjectMap                                                       *)
(***************************************************************************)
\* a faulty computation that finds no empty subobject in any class
NoEmptySubobjectSizes(Class) == 0

\* the largest of the sizes of the empty subobjects a base or a member of
\* Class can contribute
ComputeEmptySubobjectSizes(Class) ==
    LET EmptySize(RD) == IF isEmpty(RD) THEN cache[RD].Size
                         ELSE cache[RD].SizeOfLargestEmptySubobject
        FromBases == {EmptySize(decls[Class].bases[i].cls) :
                         i \in 1..Len(decls[Class].bases)}
        FromFields == {EmptySize(getBaseElementRecord(decls[Class].fields[i].type)) :
                         i \in {j \in 1..Len(decls[Class].fields) :
                                  getBaseElementRecord(decls[Class].fields[j].type) # 0}}
        All == FromBases \cup FromFields \cup {0}
    IN CHOOSE m \in All : \A x \in All : x <= m

\* the map right after its constructor ran
EmptySubobjectMap(Class) ==
    [Class |-> Class,
     EmptyClassOffsets |-> {},
     MaxEmptyClassOffset |-> 0,
     SizeOfLargestEmptySubobject |-> ComputeEmptySubobjectSizes(Class),
     \* history: the CanPlaceBaseAtOffset and CanPlaceFieldAtOffset calls
     \* answered so far, each with the table before and after it
     Calls |-> <<>>]

\* a faulty shortcut that also skips the table at MaxEmptyClassOffset itself
NoEmptySubobjectsFromOffset(esm, Offset) == Offset < esm.MaxEmptyClassOffset

AnyEmptySubobjectsBeyondOffset(esm, Offset) == Offset <= esm.MaxEmptyClassOffset

\* a faulty check that lets any subobject go anywhere
AlwaysPlaceSubobject(esm, RD, Offset) == TRUE

CanPlaceSubobjectAtOffset(esm, RD, Offset) ==
    IF ~isEmpty(RD) THEN TRUE
    ELSE <<Offset, RD>> \notin esm.EmptyClassOffsets

AddSubobjectAtOffset(esm, RD, Offset) ==
    IF ~isEmpty(RD) THEN esm
    ELSE IF <<Offset, RD>> \in esm.EmptyClassOffsets THEN esm
    ELSE [esm EXCEPT !.EmptyClassOffsets = @ \cup {<<Offset, RD>>},
                     !.MaxEmptyClassOffset = Max(@, Offset)]

\* EmptySubobjectMap::getFieldOffset; FieldNo counts from 1 here
getFieldOffsetInChars(Layout, FieldNo) == toCharUnitsFromBits(Layout.FieldOffsets[FieldNo])

RECURSIVE CanPlaceBaseSubobjectAtOffset(_, _, _, _)
RECURSIVE CanPlaceFieldSubobjectAtOffsetRD(_, _, _, _)
RECURSIVE CanPlaceFieldSubobjectAtOffset(_, _, _)

\* g is the BaseSubobjectInfo graph, Info a node of it
CanPlaceBaseSubobjectAtOffset(esm, g, Info, Offset) ==
    IF ~AnyEmptySubobjectsBeyondOffset(esm, Offset) THEN TRUE
    ELSE IF ~CanPlaceSubobjectAtOffset(esm, g[Info].Class, Offset) THEN FALSE
    ELSE LET Layout == cache[g[Info].Class]
             Fields == decls[g[Info].Class].fields
             PVB    == g[Info].PrimaryVirtualBaseInfo
         IN /\ \A I \in 1..Len(g[Info].Bases) :
                  LET B == g[Info].Bases[I]
                  IN \/ g[B].IsVirtual
                     \/ CanPlaceBaseSubobjectAtOffset(esm, g, B,
                            Offset + Layout.BaseOffsets[g[B].Class])
            /\ \/ PVB = 0
               \/ g[PVB].Derived # Info
               \/ CanPlaceBaseSubobjectAtOffset(esm, g, PVB, Offset)
            /\ \A FieldNo \in 1..Len(Fields) :
                  \/ isBitField(Fields[FieldNo])
                  \/ CanPlaceFieldSubobjectAtOffset(esm, Fields[FieldNo],
                         Offset + getFieldOffsetInChars(Layout, FieldNo))

CanPlaceFieldSubobjectAtOffsetRD(esm, RD, Class, Offset) ==
    IF ~AnyEmptySubobjectsBeyondOffset(esm, Offset) THEN TRUE
    ELSE IF ~CanPlaceSubobjectAtOffset(esm, RD, Offset) THEN FALSE
    ELSE LET Layout == cache[RD]
             Fields == decls[RD].fields
             VBs    == getVBases(RD)
         IN /\ \A I \in 1..Len(decls[RD].bases) :
                  LET B == decls[RD].bases[I]
                  IN \/ B.virt
                     \/ CanPlaceFieldSubobjectAtOffsetRD(esm, B.cls, Class,
                            Offset + Layout.BaseOffsets[B.cls])
            /\ \/ RD # Class
               \/ \A I \in 1..Len(VBs) :
                     CanPlaceFieldSubobjectAtOffsetRD(esm, VBs[I], Class,
                         Offset + Layout.VBaseOffsets[VBs[I]])
            /\ \A FieldNo \in 1..Len(Fields) :
                  \/ isBitField(Fields[FieldNo])
                  \/ CanPlaceFieldSubobjectAtOffset(esm, Fields[FieldNo],
                         Offset + getFieldOffsetInChars(Layout, FieldNo))

\* the FieldDecl overload; the element loop stops at the first element past
\* MaxEmptyClassOffset, and every later element is past it as well
CanPlaceFieldSubobjectAtOffset(esm, FD, Offset) ==
    IF ~AnyEmptySubobjectsBeyondOffset(esm, Offset) THEN TRUE
    ELSE IF FD.type.k = "record"
         THEN CanPlaceFieldSubobjectAtOffsetRD(esm, FD.type.rec, FD.type.rec, Offset)
    ELSE IF FD.type.k = "array" /\ FD.type.ek = "record"
         THEN \A I \in 0..(FD.type.n - 1) :
                 LET ElementOffset == Offset + I * cache[FD.type.rec].Size
                 IN \/ ~AnyEmptySubobjectsBeyondOffset(esm, ElementOffset)
                    \/ CanPlaceFieldSubobjectAtOffsetRD(esm, FD.type.rec,
                           FD.type.rec, ElementOffset)
    ELSE TRUE

RECURSIVE BaseSubobjectsVisited(_, _, _, _, _)
RECURSIVE FieldSubobjectsVisitedRD(_, _, _, _)
RECURSIVE FieldSubobjectsVisited(_, _, _)

\* The <<Offset, RD>> pairs UpdateEmptyBaseSubobjects hands to
\* AddSubobjectAtOffset.  S is SizeOfLargestEmptySubobject; the traversal
\* reads nothing else of the map, and AddSubobjectAtOffset only adds to it,
\* so the order of the calls does not matter.
BaseSubobjectsVisited(S, g, Info, Offset, PlacingEmptyBase) ==
    IF ~PlacingEmptyBase /\ Offset >= S THEN {}
    ELSE LET Layout == cache[g[Info].Class]
             Fields == decls[g[Info].Class].fields
             PVB    == g[Info].PrimaryVirtualBaseInfo
         IN {<<Offset, g[Info].Class>>}
            \cup UNION {BaseSubobjectsVisited(S, g, g[Info].Bases[I],
                            Offset + Layout.BaseOffsets[g[g[Info].Bases[I]].Class],
                            PlacingEmptyBase) :
                        I \in {J \in 1..Len(g[Info].Bases) :
                                 ~g[g[Info].Bases[J]].IsVirtual}}
            \cup (IF PVB # 0 /\ g[PVB].Derived = Info
                  THEN BaseSubobjectsVisited(S, g, PVB, Offset, PlacingEmptyBase)
                  ELSE {})
            \cup UNION {FieldSubobjectsVisited(S, Fields[FieldNo],
                            Offset + getFieldOffsetInChars(Layout, FieldNo)) :
                        FieldNo \in {J \in 1..Len(Fields) : ~isBitField(Fields[J])}}

\* the pairs UpdateEmptyFieldSubobjects(RD, Class, Offset) adds
FieldSubobjectsVisitedRD(S, RD, Class, Offset) ==
    IF Offset >= S THEN {}
    ELSE LET Layout == cache[RD]
             Fields == decls[RD].fields
             VBs    == getVBases(RD)
         IN {<<Offset, RD>>}
            \cup UNION {FieldSubobjectsVisitedRD(S, decls[RD].bases[I].cls, Class,
                            Offset + Layout.BaseOffsets[decls[RD].bases[I].cls]) :
                        I \in {J \in 1..Len(decls[RD].bases) : ~decls[RD].bases[J].virt}}
            \cup (IF RD = Class
                  THEN UNION {FieldSubobjectsVisitedRD(S, VBs[I], Class,
                                  Offset + Layout.VBaseOffsets[VBs[I]]) :
                              I \in 1..Len(VBs)}
                  ELSE {})
            \cup UNION {FieldSubobjectsVisited(S, Fields[FieldNo],
                            Offset + getFieldOffsetInChars(Layout, FieldNo)) :
                        FieldNo \in {J \in 1..Len(Fields) : ~isBitField(Fields[J])}}

\* the pairs UpdateEmptyFieldSubobjects(FD, Offset) adds; the element loop
\* returns at the first element at or past S
FieldSubobjectsVisited(S, FD, Offset) ==
    IF FD.type.k = "record"
    THEN FieldSubobjectsVisitedRD(S, FD.type.rec, FD.type.rec, Offset)
    ELSE IF FD.type.k = "array" /\ FD.type.ek = "record"
    THEN UNION {FieldSubobjectsVisitedRD(S, FD.type.rec, FD.type.rec,
                    Offset + I * cache[FD.type.rec].Size) :
                I \in {J \in 0..(FD.type.n - 1) :
                         Offset + J * cache[FD.type.rec].Size < S}}
    ELSE {}

RECURSIVE AddSubobjectsAtOffsets(_, _)
AddSubobjectsAtOffsets(esm, pairs) ==
    IF pairs = {} THEN esm
    ELSE LET p == CHOOSE q \in pairs : TRUE
         IN AddSubobjectsAtOffsets(AddSubobjectAtOffset(esm, p[2], p[1]), pairs \ {p})

UpdateEmptyBaseSubobjects(esm, g, Info, Offset, PlacingEmptyBase) ==
    AddSubobjectsAtOffsets(esm,
        BaseSubobjectsVisited(esm.SizeOfLargestEmptySubobject, g, Info, Offset,
                              PlacingEmptyBase))

UpdateEmptyFieldSubobjects(esm, FD, Offset) ==
    AddSubobjectsAtOffsets(esm,
        FieldSubobjectsVisited(esm.SizeOfLargestEmptySubobject, FD, Offset))

\* a faulty check that records the subobjects of a base it refuses
UpdateRefusedBase(esm, g, Info, Offset) ==
    Only({
        <<r[1], [r[2] EXCEPT !.Calls =
                Append(@, [base |-> TRUE, g |-> g, Info |-> Info, FD |-> <<>>,
                           Offset |-> Offset, Allowed |-> r[1],
                           Before |-> r[3].EmptyClassOffsets,
                           MaxBefore |-> r[3].MaxEmptyClassOffset,
                           After |-> r[2].EmptyClassOffsets,
                           MaxAfter |-> r[2].MaxEmptyClassOffset])]>>
        : r \in {<<e.SizeOfLargestEmptySubobject = 0
                   \/ CanPlaceBaseSubobjectAtOffset(e, g, Info, Offset),
                   IF e.SizeOfLargestEmptySubobject = 0 THEN e
                   ELSE UpdateEmptyBaseSubobjects(e, g, Info, Offset,
                                                  isEmpty(g[Info].Class)),
                   e>> : e \in {esm}}})

\* returns <<allowed, the map afterwards>>
CanPlaceBaseAtOffset(esm, g, Info, Offset) ==
    Only({
        <<r[1], [r[2] EXCEPT !.Calls =
                Append(@, [base |-> TRUE, g |-> g, Info |-> Info, FD |-> <<>>,
                           Offset |-> Offset, Allowed |-> r[1],
                           Before |-> r[3].EmptyClassOffsets,
                           MaxBefore |-> r[3].MaxEmptyClassOffset,
                           After |-> r[2].EmptyClassOffsets,
                           MaxAfter |-> r[2].MaxEmptyClassOffset])]>>
        : r \in {IF e.SizeOfLargestEmptySubobject = 0 THEN <<TRUE, e, e>>
                  ELSE IF ~CanPlaceBaseSubobjectAtOffset(e, g, Info, Offset)
                  THEN <<FALSE, e, e>>
                  ELSE <<TRUE, UpdateEmptyBaseSubobjects(e, g, Info, Offset,
                                                         isEmpty(g[Info].Class)), e>>
                  : e \in {esm}}})

\* returns <<allowed, the map afterwards>>
CanPlaceFieldAtOffset(esm, FD, Offset) ==
    Only({
        <<r[1], [r[2] EXCEPT !.Calls =
                Append(@, [base |-> FALSE, g |-> <<>>, Info |-> 0, FD |-> FD,
                           Offset |-> Offset, Allowed |-> r[1],
                           Before |-> r[3].EmptyClassOffsets,
                           MaxBefore |-> r[3].MaxEmptyClassOffset,
                           After |-> r[2].EmptyClassOffsets,
                           MaxAfter |-> r[2].MaxEmptyClassOffset])]>>
        : r \in {IF ~CanPlaceFieldSubobjectAtOffset(e, FD, Offset) THEN <<FALSE, e, e>>
                  ELSE <<TRUE, UpdateEmptyFieldSubobjects(e, FD, Offset), e>>
                  : e \in {esm}}})

(***************************************************************************)
(* Primary base selection and the BaseSubobjectInfo graph                  *)
(***************************************************************************)
\* ASTContext::isNearlyEmpty under the Itanium C++ ABI
isNearlyEmpty(RD) ==
    /\ isDynamicClass(RD)
    /\ toBits(cache[RD].NonVirtualSize) = ctx.PointerWidth

RECURSIVE AddIndirectPrimaryBases(_)
\* the virtual primary bases of RD and of its bases that have virtual bases
AddIndirectPrimaryBases(RD) ==
    (IF cache[RD].PrimaryBaseIsVirtual THEN {cache[RD].PrimaryBase} ELSE {})
    \cup UNION {AddIndirectPrimaryBases(decls[RD].bases[i].cls) :
                i \in {j \in 1..Len(decls[RD].bases) :
                         getNumVBases(decls[RD].bases[j].cls) # 0}}

\* CXXRecordDecl::getIndirectPrimaryBases
getIndirectPrimaryBases(RD) ==
    IF getNumVBases(RD) = 0 THEN {}
    ELSE UNION {AddIndirectPrimaryBases(decls[RD].bases[i].cls) :
                i \in {j \in 1..Len(decls[RD].bases) :
                         getNumVBases(decls[RD].bases[j].cls) # 0}}

RECURSIVE SelectPrimaryVBase(_, _, _)
\* the loop of SelectPrimaryVBase(RD) from base number i on; b is the builder
SelectPrimaryVBase(b, RD, i) ==
    IF i > Len(decls[RD].bases) THEN b
    ELSE LET B == decls[RD].bases[i]
             Nearly == B.virt /\ isNearlyEmpty(B.cls)
         IN IF Nearly /\ B.cls \notin b.IndirectPrimaryBases
            THEN [b EXCEPT !.PrimaryBase = B.cls, !.PrimaryBaseIsVirtual = TRUE]
            ELSE LET b1 == IF Nearly /\ b.FirstNearlyEmptyVBase = 0
                           THEN [b EXCEPT !.FirstNearlyEmptyVBase = B.cls]
                           ELSE b
                     b2 == SelectPrimaryVBase(b1, B.cls, 1)
                 IN IF b2.PrimaryBase # 0 THEN b2
                    ELSE SelectPrimaryVBase(b2, RD, i + 1)

\* a faulty DeterminePrimaryBase that never looks for a primary base
NoPrimaryBase(b, RD) == b

\* RecordLayoutBuilder::DeterminePrimaryBase
DeterminePrimaryBase(b, RD) ==
    IF ~isDynamicClass(RD) THEN b
    ELSE LET b1 == [b EXCEPT !.IndirectPrimaryBases = getIndirectPrimaryBases(RD)]
             Dyn == {i \in 1..Len(decls[RD].bases) :
                       /\ ~decls[RD].bases[i].virt
                       /\ isDynamicClass(decls[RD].bases[i].cls)}
             b2 == IF getNumVBases(RD) # 0 THEN SelectPrimaryVBase(b1, RD, 1) ELSE b1
         IN IF Dyn # {}
            THEN [b1 EXCEPT !.PrimaryBase =
                               decls[RD].bases[CHOOSE i \in Dyn : \A j \in Dyn : i <= j].cls,
                            !.PrimaryBaseIsVirtual = FALSE]
            ELSE IF b2.PrimaryBase # 0 THEN b2
            ELSE IF b2.FirstNearlyEmptyVBase # 0
            THEN [b2 EXCEPT !.PrimaryBase = b2.FirstNearlyEmptyVBase,
                            !.PrimaryBaseIsVirtual = TRUE]
            ELSE b2

\* a faulty node that starts out claimed by the first node of the graph
ClaimedBaseSubobjectInfo(RD, IsVirtual) ==
    [Class |-> RD, IsVirtual |-> IsVirtual, Bases |-> <<>>,
     PrimaryVirtualBaseInfo |-> 0, Derived |-> 1]

\* a fresh BaseSubobjectInfo
BaseSubobjectInfo(RD, IsVirtual) ==
    [Class |-> RD, IsVirtual |-> IsVirtual, Bases |-> <<>>,
     PrimaryVirtualBaseInfo |-> 0, Derived |-> 0]

RECURSIVE ComputeBaseSubobjectInfoRec(_, _, _), ComputeBaseSubobjectInfoBases(_, _, _, _)

\* a faulty construction that gives every base a node of its own
NodePerPath(b, RD, IsVirtual) ==
    LET Info == Len(b.g) + 1
        b0 == [b EXCEPT !.g = Append(@, BaseSubobjectInfo(RD, IsVirtual)),
                        !.VirtualBaseInfo = IF IsVirtual THEN MapSet(@, RD, Info) ELSE @]
    IN <<ComputeBaseSubobjectInfoBases(b0, RD, Info, 1), Info>>

\* ComputeBaseSubobjectInfo(RD, IsVirtual, Derived); b carries the graph g
\* and VirtualBaseInfo.  Returns <<b afterwards, the node>>.  The Derived
\* argument is not read by the source.
ComputeBaseSubobjectInfoRec(b, RD, IsVirtual) ==
    IF IsVirtual /\ MapLookup(b.VirtualBaseInfo, RD) # 0
    THEN <<b, b.VirtualBaseInfo[RD]>>
    ELSE LET Info == Len(b.g) + 1
             b0 == [b EXCEPT !.g = Append(@, BaseSubobjectInfo(RD, IsVirtual)),
                             !.VirtualBaseInfo =
                                 IF IsVirtual THEN MapSet(@, RD, Info) ELSE @]
             HasPVB == getNumVBases(RD) # 0 /\ cache[RD].PrimaryBaseIsVirtual
             PVBInfo0 == IF HasPVB
                         THEN MapLookup(b0.VirtualBaseInfo, cache[RD].PrimaryBase)
                         ELSE 0
             Claimed == PVBInfo0 # 0 /\ b0.g[PVBInfo0].Derived # 0
             \* PrimaryVirtualBase after the first check
             PVB == IF HasPVB /\ ~Claimed THEN cache[RD].PrimaryBase ELSE 0
             b1 == IF PVBInfo0 # 0 /\ ~Claimed
                   THEN [b0 EXCEPT !.g[Info].PrimaryVirtualBaseInfo = PVBInfo0,
                                   !.g[PVBInfo0].Derived = Info,
                                   !.Claims = Append(@, [P |-> PVBInfo0, by |-> Info,
                                                         was |-> 0, made |-> TRUE])]
                   ELSE IF Claimed
                   THEN [b0 EXCEPT !.Claims = Append(@, [P |-> PVBInfo0, by |-> Info,
                                                         was |-> b0.g[PVBInfo0].Derived,
                                                         made |-> FALSE])]
                   ELSE b0
             b2 == ComputeBaseSubobjectInfoBases(b1, RD, Info, 1)
             PVBInfo1 == MapLookup(b2.VirtualBaseInfo, PVB)
             b3 == IF PVB # 0 /\ PVBInfo0 = 0
                   THEN [b2 EXCEPT !.g[Info].PrimaryVirtualBaseInfo = PVBInfo1,
                                   !.g[PVBInfo1].Derived = Info,
                                   !.Claims = Append(@, [P |-> PVBInfo1, by |-> Info,
                                                         was |-> b2.g[PVBInfo1].Derived,
                                                         made |-> TRUE])]
                   ELSE b2
         IN <<b3, Info>>

\* the loop over the direct bases of RD from base number i on
ComputeBaseSubobjectInfoBases(b, RD, Info, i) ==
    IF i > Len(decls[RD].bases) THEN b
    ELSE LET B == decls[RD].bases[i]
             r == ComputeBaseSubobjectInfoRec(b, B.cls, B.virt)
         IN ComputeBaseSubobjectInfoBases(
                [r[1] EXCEPT !.g[Info].Bases = Append(@, r[2])], RD, Info, i + 1)

RECURSIVE ComputeBaseSubobjectInfo(_, _, _)
\* ComputeBaseSubobjectInfo(RD), from base number i on
ComputeBaseSubobjectInfo(b, RD, i) ==
    IF i > Len(decls[RD].bases) THEN b
    ELSE LET B == decls[RD].bases[i]
             r == ComputeBaseSubobjectInfoRec(b, B.cls, B.virt)
             b1 == IF B.virt THEN r[1]
                   ELSE [r[1] EXCEPT !.NonVirtualBaseInfo = MapInsert(@, B.cls, r[2])]
         IN ComputeBaseSubobjectInfo(b1, RD, i + 1)

(***************************************************************************)
(* RecordLayoutBuilder (Itanium): state, bases                             *)
(***************************************************************************)
\* the external layout source's answer when it has none
NoExternalLayout ==
    [valid |-> FALSE, Size |-> 0, Align |-> 0, FieldOffsets |-> EmptyMap,
     BaseOffsets |-> EmptyMap, VirtualBaseOffsets |-> EmptyMap]

\* the builder right after its constructor ran; Size and DataSize are bits.
\* hasESM tells whether an EmptySubobjectMap was handed in.
RecordLayoutBuilder(hasESM, esm) ==
    [Size |-> 0, Alignment |-> 1, UnpackedAlignment |-> 1, DataSize |-> 0,
     NonVirtualSize |-> 0, NonVirtualAlignment |-> 1,
     FieldOffsets |-> <<>>,
     ExternalLayout |-> FALSE, InferAlignment |-> FALSE, External |-> NoExternalLayout,
     Packed |-> FALSE, IsUnion |-> FALSE, IsMac68kAlign |-> FALSE, IsMsStruct |-> FALSE,
     UnfilledBitsInLastUnit |-> 0, LastBitfieldTypeSize |-> 0, MaxFieldAlignment |-> 0,
     PrimaryBase |-> 0, PrimaryBaseIsVirtual |-> FALSE, HasOwnVFPtr |-> FALSE,
     Bases |-> EmptyMap, VBases |-> EmptyMap,
     IndirectPrimaryBases |-> {}, FirstNearlyEmptyVBase |-> 0, VisitedVirtualBases |-> {},
     hasESM |-> hasESM, esm |-> esm,
     g |-> <<>>, VirtualBaseInfo |-> EmptyMap, NonVirtualBaseInfo |-> EmptyMap,
     Ivars |-> FALSE, Diags |-> {}, Asserts |-> {},
     \* history: getSizeInBits() when Layout froze the non-virtual dimensions,
     \* when FinishLayout was entered and right before it rounded the size
     SizeBeforeVBases |-> 0, SizeAtFinish |-> 0, UnroundedSize |-> 0,
     \* history: the offsets updateExternalFieldOffset was called with, by field
     ComputedOffsets |-> EmptyMap,
     \* history: the claims ComputeBaseSubobjectInfo made or gave up, each
     \* with the node, the claimant and the Derived pointer it found
     Claims |-> <<>>]

\* assert(cond && msg): a failed assertion is recorded and, as in a build
\* without assertions, the builder carries on
assertThat(b, cond, msg) == IF cond THEN b ELSE [b EXCEPT !.Asserts = @ \cup {msg}]

\* faulty accessors: half the size, no data size
HalfSize(b) == b.Size \div (2 * CharWidth)

ZeroDataSize(b) == 0

\* RecordLayoutBuilder::getSize / getDataSize: the bit count in CharUnits
getSize(b) == toCharUnitsFromBits(b.Size)

getDataSize(b) == toCharUnitsFromBits(b.DataSize)

UpdateAlignment(b, NewAlignment, UnpackedNewAlignment) ==
    IF b.IsMac68kAlign \/ (b.ExternalLayout /\ ~b.InferAlignment) THEN b
    ELSE [b EXCEPT !.Alignment = Max(@, NewAlignment),
                   !.UnpackedAlignment = Max(@, UnpackedNewAlignment)]

EnsureVTablePointerAlignment(b, UnpackedBaseAlign0) ==
    LET BaseAlign0 == IF b.Packed THEN 1 ELSE UnpackedBaseAlign0
        BaseAlign == IF b.MaxFieldAlignment # 0
                     THEN Min(BaseAlign0, b.MaxFieldAlignment) ELSE BaseAlign0
        UnpackedBaseAlign == IF b.MaxFieldAlignment # 0
                             THEN Min(UnpackedBaseAlign0, b.MaxFieldAlignment)
                             ELSE UnpackedBaseAlign0
        NewSize == toBits(RoundUpToAlignment(getSize(b), BaseAlign))
    IN UpdateAlignment([b EXCEPT !.Size = NewSize, !.DataSize = NewSize],
                       BaseAlign, UnpackedBaseAlign)

\* a faulty placement that never tries the first offset
PlaceBaseAtNextOffset(esm, g, Info, Offset, BaseAlign) == <<Offset + BaseAlign, esm>>

RECURSIVE PlaceBase(_, _, _, _, _)
\* while (!CanPlaceBaseAtOffset(Base, Offset)) Offset += BaseAlign;
\* returns <<Offset, the map afterwards>>
PlaceBase(esm, g, Info, Offset, BaseAlign) ==
    LET r == CanPlaceBaseAtOffset(esm, g, Info, Offset)
    IN IF r[1] THEN <<Offset, r[2]>>
       ELSE PlaceBase(r[2], g, Info, Offset + BaseAlign, BaseAlign)

\* returns <<the builder afterwards, the offset of the base>>
LayoutBase(b, Info) ==
    LET Class == b.g[Info].Class
        Layout == cache[Class]
        Known == IF b.g[Info].IsVirtual THEN b.External.VirtualBaseOffsets
                 ELSE b.External.BaseOffsets
        HasExternalLayout == b.ExternalLayout /\ Class \in DOMAIN Known
        ExtOffset == IF HasExternalLayout THEN Known[Class] ELSE 0
        UnpackedBaseAlign0 == Layout.NonVirtualAlignment
        BaseAlign0 == IF b.Packed THEN 1 ELSE UnpackedBaseAlign0
        BaseAlign == IF b.MaxFieldAlignment # 0
                     THEN Min(BaseAlign0, b.MaxFieldAlignment) ELSE BaseAlign0
        UnpackedBaseAlign == IF b.MaxFieldAlignment # 0
                             THEN Min(UnpackedBaseAlign0, b.MaxFieldAlignment)
                             ELSE UnpackedBaseAlign0
        Rounded == RoundUpToAlignment(getDataSize(b), BaseAlign)
    IN
    Only({
      IF AtZero[1]
      THEN <<UpdateAlignment([b EXCEPT !.esm = AtZero[2],
                                       !.Size = Max(toBits(getSize(b)), toBits(Layout.Size))],
                             BaseAlign0, UnpackedBaseAlign0), 0>>
      ELSE
      Only({
        LET Offset == IF HasExternalLayout THEN ExtOffset ELSE Placed[1]
            b1 == assertThat([b EXCEPT !.esm = Placed[2]],
                             IF HasExternalLayout THEN Placed[1] ELSE TRUE,
                             "Base subobject externally placed at overlapping offset")
            b2 == IF HasExternalLayout /\ b.InferAlignment /\ Offset < Rounded
                  THEN [b1 EXCEPT !.Alignment = 1, !.InferAlignment = FALSE]
                  ELSE b1
            b3 == IF ~isEmpty(Class)
                  THEN [b2 EXCEPT !.DataSize = toBits(Offset + Layout.NonVirtualSize),
                                  !.Size = Max(toBits(getSize(b)),
                                               toBits(Offset + Layout.NonVirtualSize))]
                  ELSE [b2 EXCEPT !.Size = Max(toBits(getSize(b)),
                                               toBits(Offset + Layout.Size))]
        IN <<UpdateAlignment(b3, BaseAlign, UnpackedBaseAlign), Offset>>
        \* an externally placed base is tried at its offset, any other from
        \* the rounded data size on
        : Placed \in {IF HasExternalLayout
                      THEN CanPlaceBaseAtOffset(AtZero[2], b.g, Info, ExtOffset)
                      ELSE PlaceBase(AtZero[2], b.g, Info, Rounded, BaseAlign)}})
      \* an empty base is tried at offset zero first
      : AtZero \in {IF isEmpty(Class) /\ (~HasExternalLayout \/ ExtOffset = 0)
                    THEN CanPlaceBaseAtOffset(b.esm, b.g, Info, 0)
                    ELSE <<FALSE, b.esm>>}})

\* a faulty AddPrimaryVirtualBaseOffsets that records no offset
ForgetPrimaryVirtualBaseOffsets(b, Info, Offset) == b

RECURSIVE AddPrimaryVirtualBaseOffsets(_, _, _), AddPrimaryVirtualBaseOffsetsBases(_, _, _, _)

AddPrimaryVirtualBaseOffsets(b, Info, Offset) ==
    IF getNumVBases(b.g[Info].Class) = 0 THEN b
    ELSE LET PVB == b.g[Info].PrimaryVirtualBaseInfo
             b1 == IF PVB # 0 /\ b.g[PVB].Derived = Info
                   THEN AddPrimaryVirtualBaseOffsets(
                            [assertThat(b, b.g[PVB].Class \notin DOMAIN b.VBases,
                                        "primary vbase offset already exists!")
                               EXCEPT !.VBases = MapInsert(@, b.g[PVB].Class, Offset)],
                            PVB, Offset)
                   ELSE b
         IN AddPrimaryVirtualBaseOffsetsBases(b1, Info, Offset, 1)

\* the loop over the direct non-virtual bases of Info, from number I on
AddPrimaryVirtualBaseOffsetsBases(b, Info, Offset, I) ==
    IF I > Len(b.g[Info].Bases) THEN b
    ELSE LET B == b.g[Info].Bases[I]
             b1 == IF b.g[B].IsVirtual THEN b
                   ELSE AddPrimaryVirtualBaseOffsets(b, B,
                            Offset + cache[b.g[Info].Class].BaseOffsets[b.g[B].Class])
         IN AddPrimaryVirtualBaseOffsetsBases(b1, Info, Offset, I + 1)

\* a faulty LayoutNonVirtualBase that records the base far behind its place
LayoutNonVirtualBaseFar(b, Info) ==
    LET r == LayoutBase(b, Info)
    IN [r[1] EXCEPT !.Bases = MapInsert(@, b.g[Info].Class, r[2] + 64)]

LayoutNonVirtualBase(b, Info) ==
    Only({
        LET Class == b.g[Info].Class
            b1 == assertThat(r[1], Class \notin DOMAIN r[1].Bases,
                             "base offset already exists!")
        IN AddPrimaryVirtualBaseOffsets([b1 EXCEPT !.Bases = MapInsert(@, Class, r[2])],
                                        Info, r[2])
        : r \in {LayoutBase(b, Info)}})

LayoutVirtualBase(b, Info) ==
    Only({
        LET Class == b.g[Info].Class
            b1 == assertThat(r[1], Class \notin DOMAIN r[1].VBases,
                             "vbase offset already exists!")
        IN AddPrimaryVirtualBaseOffsets([b1 EXCEPT !.VBases = MapInsert(@, Class, r[2])],
                                        Info, r[2])
        : r \in {LayoutBase(assertThat(b, b.g[Info].Derived = 0,
                                       "Trying to lay out a primary virtual base!"),
                            Info)}})

RECURSIVE LayoutNonVirtualBasesRest(_, _, _)
\* the last loop of LayoutNonVirtualBases, from base number I on
LayoutNonVirtualBasesRest(b, RD, I) ==
    IF I > Len(decls[RD].bases) THEN b
    ELSE LET B == decls[RD].bases[I]
             Skip == B.virt \/ (B.cls = b.PrimaryBase /\ ~b.PrimaryBaseIsVirtual)
             b1 == IF Skip THEN b
                   ELSE LayoutNonVirtualBase(b, MapLookup(b.NonVirtualBaseInfo, B.cls))
         IN LayoutNonVirtualBasesRest(b1, RD, I + 1)

LayoutNonVirtualBases(b, RD) ==
    Only({
    LET PrimaryBaseInfo == MapLookup(b1.VirtualBaseInfo, b1.PrimaryBase)
        bv == assertThat([b1 EXCEPT !.g[PrimaryBaseInfo].Derived = 0,
                                    !.IndirectPrimaryBases = @ \cup {b1.PrimaryBase},
                                    !.VisitedVirtualBases = @ \cup {b1.PrimaryBase}],
                         b1.PrimaryBase \notin b1.VisitedVirtualBases,
                         "vbase already visited!")
        bp == EnsureVTablePointerAlignment(
                  assertThat(b1, b1.DataSize = 0, "Vtable pointer must be at offset zero!"),
                  toCharUnitsFromBits(ctx.PointerAlign))
        b2 == IF b1.PrimaryBase # 0
              THEN IF b1.PrimaryBaseIsVirtual
                   THEN LayoutVirtualBase(bv, PrimaryBaseInfo)
                   ELSE LayoutNonVirtualBase(b1, MapLookup(b1.NonVirtualBaseInfo,
                                                           b1.PrimaryBase))
              ELSE IF isDynamicClass(RD)
              THEN [bp EXCEPT !.HasOwnVFPtr = TRUE,
                              !.Size = toBits(getSize(bp)) + ctx.PointerWidth,
                              !.DataSize = toBits(getSize(bp)) + ctx.PointerWidth]
              ELSE b1
    IN LayoutNonVirtualBasesRest(b2, RD, 1)
    : b1 \in {ComputeBaseSubobjectInfo(DeterminePrimaryBase(b, RD), RD, 1)}})

RECURSIVE LayoutVirtualBases(_, _, _, _)
\* LayoutVirtualBases(RD, MostDerivedClass), from base number I of RD on
LayoutVirtualBases(b, RD, MostDerivedClass, I) ==
    IF I > Len(decls[RD].bases) THEN b
    ELSE LET PrimaryBase == IF MostDerivedClass = RD THEN b.PrimaryBase
                            ELSE cache[RD].PrimaryBase
             PrimaryBaseIsVirtual == IF MostDerivedClass = RD THEN b.PrimaryBaseIsVirtual
                                     ELSE cache[RD].PrimaryBaseIsVirtual
             B == decls[RD].bases[I]
             Lay == /\ B.virt
                    /\ (PrimaryBase # B.cls \/ ~PrimaryBaseIsVirtual)
                    /\ B.cls \notin b.IndirectPrimaryBases
             Seen == B.cls \in b.VisitedVirtualBases
         IN Only({
                LayoutVirtualBases(
                    IF (Lay /\ Seen) \/ getNumVBases(B.cls) = 0 THEN b1
                    ELSE LayoutVirtualBases(b1, B.cls, MostDerivedClass, 1),
                    RD, MostDerivedClass, I + 1)
                : b1 \in {IF Lay /\ ~Seen
                          THEN LayoutVirtualBase(
                                   [b EXCEPT !.VisitedVirtualBases = @ \cup {B.cls}],
                                   MapLookup(b.VirtualBaseInfo, B.cls))
                          ELSE b}})

(***************************************************************************)
(* RecordLayoutBuilder (Itanium): fields                                   *)
(***************************************************************************)
\* Diag(...): FieldNo is the number of the field the diagnostic is about, 0
\* for one about the record
Diag(b, id, FieldNo) == [b EXCEPT !.Diags = @ \cup {[id |-> id, field |-> FieldNo]}]

\* a faulty CheckFieldPadding that warns about every field
WarnAboutEveryField(b, Offset, UnpaddedOffset, UnpackedOffset, UnpackedAlign, isPacked, D) ==
    Diag(b, "warn_padded_struct_field", Len(b.FieldOffsets))

\* RecordLayoutBuilder::CheckFieldPadding; the field checked is the one
\* whose offset was pushed last
CheckFieldPadding(b, Offset, UnpaddedOffset, UnpackedOffset, UnpackedAlign, isPacked, D) ==
    IF b.Ivars \/ ~D.loc THEN b
    ELSE LET FieldNo == Len(b.FieldOffsets)
             b1 == IF ~b.IsUnion /\ Offset > UnpaddedOffset
                   THEN Diag(b, IF D.named THEN "warn_padded_struct_field"
                                ELSE "warn_padded_struct_anon_field", FieldNo)
                   ELSE b
         IN IF isPacked /\ UnpackedAlign > CharWidth /\ Offset = UnpackedOffset
            THEN Diag(b1, "warn_unnecessary_packed", FieldNo)
            ELSE b1

\* a faulty updateExternalFieldOffset that keeps the computed offset
KeepComputedOffset(b, Field, ComputedOffset) ==
    <<[b EXCEPT !.ComputedOffsets = MapSet(@, Field, ComputedOffset)], ComputedOffset>>

\* RecordLayoutBuilder::updateExternalFieldOffset: <<builder, offset to use>>;
\* Field is the number of the field
updateExternalFieldOffset(b, Field, ComputedOffset) ==
    LET b0 == assertThat([b EXCEPT !.ComputedOffsets = MapSet(@, Field, ComputedOffset)],
                         Field \in DOMAIN b.External.FieldOffsets,
                         "Field does not have an external offset")
        ExternalFieldOffset == MapLookup(b.External.FieldOffsets, Field)
    IN IF b.InferAlignment /\ ExternalFieldOffset < ComputedOffset
       THEN <<[b0 EXCEPT !.Alignment = 1, !.InferAlignment = FALSE], ExternalFieldOffset>>
       ELSE <<b0, ExternalFieldOffset>>

\* <<size, alignment>> in bits of unsigned char, short, int, long, long long
IntegralPODTypes ==
    <<<<8, 8>>, <<16, 16>>, <<32, 32>>, <<ctx.LongWidth, ctx.LongWidth>>,
      <<64, ctx.LongLongAlign>>>>

LayoutWideBitField(b, FieldSize, TypeSize, FieldPacked, D) ==
    LET Fits == {I \in 1..Len(IntegralPODTypes) :
                   \A J \in 1..I : IntegralPODTypes[J][1] <= FieldSize}
        Type == IntegralPODTypes[CHOOSE I \in Fits : \A J \in Fits : J <= I]
        TypeAlign == toCharUnitsFromBits(Type[2])
        b0 == [assertThat(b, ctx.CPlusPlus, "Can only have wide bit-fields in C++!")
                 EXCEPT !.UnfilledBitsInLastUnit = 0, !.LastBitfieldTypeSize = 0]
        UnpaddedFieldOffset == b0.DataSize
        FieldOffset == IF b.IsUnion THEN 0
                       ELSE RoundUpToAlignment(b0.DataSize, toBits(TypeAlign))
        NewSizeInBits == FieldOffset + FieldSize
        NewDataSize == IF b.IsUnion THEN Max(b0.DataSize, FieldSize)
                       ELSE RoundUpToAlignment(NewSizeInBits, CharAlign)
        b1 == [b0 EXCEPT !.DataSize = NewDataSize,
                         !.UnfilledBitsInLastUnit =
                             IF b.IsUnion THEN 0 ELSE (NewDataSize - NewSizeInBits) % 256,
                         !.FieldOffsets = Append(@, FieldOffset)]
        b2 == CheckFieldPadding(b1, FieldOffset, UnpaddedFieldOffset, FieldOffset,
                                toBits(TypeAlign), FieldPacked, D)
    IN UpdateAlignment([b2 EXCEPT !.Size = Max(@, b2.DataSize)], TypeAlign, TypeAlign)

\* a faulty LayoutBitField that always places the bit-field at the current
\* bit offset
LayoutBitFieldUnaligned(b, D, Field) ==
    LET FieldOffset == IF b.IsUnion THEN 0 ELSE b.DataSize - b.UnfilledBitsInLastUnit
        NewDataSize == IF b.IsUnion THEN Max(b.DataSize, D.width)
                       ELSE RoundUpToAlignment(FieldOffset + D.width, CharAlign)
    IN [b EXCEPT !.FieldOffsets = Append(@, FieldOffset),
                 !.DataSize = NewDataSize,
                 !.UnfilledBitsInLastUnit =
                     IF b.IsUnion THEN 0 ELSE NewDataSize - (FieldOffset + D.width),
                 !.LastBitfieldTypeSize = 0,
                 !.Size = Max(@, NewDataSize)]

\* D is the FieldDecl, Field its number in the record
LayoutBitField(b, D, Field) ==
    LET FieldPacked == b.Packed \/ D.packed
        FieldSize == D.width
        ZeroLengthBitfield == /\ ~ctx.useBitFieldTypeAlignment
                              /\ ctx.useZeroLengthBitfieldAlignment
                              /\ FieldSize = 0
        NoTypeAlign == ~ctx.useBitFieldTypeAlignment /\ ~ZeroLengthBitfield
        Clamp == b.MaxFieldAlignment # 0 /\ FieldSize # 0
        Padding == ~D.named /\ ~ctx.useZeroLengthBitfieldAlignment /\ ~b.IsMsStruct
    IN
    Only({
     Only({
      Only({
        Only({
          Only({
            Only({
              IF FieldSize > TypeSize
              THEN LayoutWideBitField(b0, FieldSize, TypeSize, FieldPacked, D)
              ELSE UpdateAlignment([b4 EXCEPT !.Size = Max(@, b4.DataSize)],
                                   toCharUnitsFromBits(IF Padding THEN 1 ELSE FieldAlign),
                                   toCharUnitsFromBits(IF Padding THEN 1
                                                       ELSE UnpackedFieldAlign))
              \* the data size and the unfilled bits of the last unit
              : b4 \in {
                  LET NewSizeInBits == FieldOffset + FieldSize
                  IN IF b.IsUnion
                     THEN [b3 EXCEPT !.DataSize = Max(@, FieldSize)]
                     ELSE IF b.IsMsStruct /\ FieldSize # 0
                     THEN (IF b3.UnfilledBitsInLastUnit = 0
                           THEN [b3 EXCEPT
                                   !.DataSize = FieldOffset + TypeSize,
                                   !.UnfilledBitsInLastUnit = (TypeSize - FieldSize) % 256,
                                   !.LastBitfieldTypeSize = TypeSize % 256]
                           ELSE IF b3.UnfilledBitsInLastUnit < FieldSize
                           THEN [b3 EXCEPT
                                   !.DataSize = @ + TypeSize,
                                   !.UnfilledBitsInLastUnit = (TypeSize - FieldSize) % 256,
                                   !.LastBitfieldTypeSize = TypeSize % 256]
                           ELSE [b3 EXCEPT !.UnfilledBitsInLastUnit = @ - FieldSize,
                                           !.LastBitfieldTypeSize = TypeSize % 256])
                     ELSE [b3 EXCEPT
                             !.DataSize = RoundUpToAlignment(NewSizeInBits, CharAlign),
                             !.UnfilledBitsInLastUnit =
                                 (RoundUpToAlignment(NewSizeInBits, CharAlign)
                                    - NewSizeInBits) % 256,
                             !.LastBitfieldTypeSize = 0]}})
            \* the offset is recorded and the padding diagnosed
            : b3 \in {
                LET b2 == [(IF b.ExternalLayout THEN ext[1] ELSE b0)
                             EXCEPT !.FieldOffsets = Append(@, FieldOffset)]
                IN IF ~b.ExternalLayout
                   THEN CheckFieldPadding(b2, FieldOffset,
                                          b0.DataSize - b0.UnfilledBitsInLastUnit,
                                          UnpackedFieldOffset,
                                          IF Padding THEN 1 ELSE UnpackedFieldAlign,
                                          FieldPacked, D)
                   ELSE b2}})
          : FieldOffset \in {IF b.ExternalLayout THEN ext[2] ELSE FieldOffset2}})
        : ext \in {IF b.ExternalLayout
                   THEN updateExternalFieldOffset(b0, Field, FieldOffset2)
                   ELSE <<b0, FieldOffset2>>}})
      \* the offsets with and without packing
      : FieldOffset2 \in {
          LET FieldOffset0 == IF b.IsUnion THEN 0
                              ELSE b0.DataSize - b0.UnfilledBitsInLastUnit
              FieldOffset1 == IF b.IsMsStruct /\ b0.LastBitfieldTypeSize = 0
                              THEN RoundUpToAlignment(FieldOffset0, FieldAlign)
                              ELSE FieldOffset0
          IN IF \/ FieldSize = 0
                \/ /\ b.MaxFieldAlignment = 0
                   /\ (FieldOffset1 % FieldAlign) + FieldSize > TypeSize
             THEN RoundUpToAlignment(FieldOffset1, FieldAlign)
             ELSE FieldOffset1},
        UnpackedFieldOffset \in {
          LET FieldOffset0 == IF b.IsUnion THEN 0
                              ELSE b0.DataSize - b0.UnfilledBitsInLastUnit
              UnpackedFieldOffset1 ==
                  IF b.IsMsStruct /\ b0.LastBitfieldTypeSize = 0
                  THEN RoundUpToAlignment(FieldOffset0, UnpackedFieldAlign)
                  ELSE FieldOffset0
          IN IF \/ FieldSize = 0
                \/ /\ b.MaxFieldAlignment = 0
                   /\ (UnpackedFieldOffset1 % UnpackedFieldAlign) + FieldSize > TypeSize
             THEN RoundUpToAlignment(UnpackedFieldOffset1, UnpackedFieldAlign)
             ELSE UnpackedFieldOffset1}})
    \* the type's size, the builder after the ms_struct reset of the last
    \* storage unit, and the alignments with and without packing
    : TypeSize \in {getTypeInfo(D.type)[1]},
      b0 \in {IF b.IsMsStruct /\ b.LastBitfieldTypeSize # getTypeInfo(D.type)[1]
              THEN [b EXCEPT !.UnfilledBitsInLastUnit = 0, !.LastBitfieldTypeSize = 0]
              ELSE b},
      FieldAlign \in {
          LET FieldAlign0 == IF b.IsMsStruct
                             THEN (IF FieldSize = 0 /\ b.LastBitfieldTypeSize = 0 THEN 1
                                   ELSE getTypeInfo(D.type)[1])
                             ELSE getTypeInfo(D.type)[2]
              FieldAlign1 == IF ZeroLengthBitfield
                             THEN Max(FieldAlign0, ctx.ZeroLengthBitfieldBoundary)
                             ELSE FieldAlign0
              FieldAlign2 == Max(IF FieldPacked \/ NoTypeAlign THEN 1 ELSE FieldAlign1,
                                 D.aligned)
          IN IF Clamp THEN Min(FieldAlign2, toBits(b.MaxFieldAlignment)) ELSE FieldAlign2},
      UnpackedFieldAlign \in {
          LET FieldAlign0 == IF b.IsMsStruct
                             THEN (IF FieldSize = 0 /\ b.LastBitfieldTypeSize = 0 THEN 1
                                   ELSE getTypeInfo(D.type)[1])
                             ELSE getTypeInfo(D.type)[2]
              FieldAlign1 == IF ZeroLengthBitfield
                             THEN Max(FieldAlign0, ctx.ZeroLengthBitfieldBoundary)
                             ELSE FieldAlign0
              UnpackedFieldAlign2 == Max(IF NoTypeAlign THEN 1 ELSE FieldAlign1, D.aligned)
          IN IF Clamp THEN Min(UnpackedFieldAlign2, toBits(b.MaxFieldAlignment))
             ELSE UnpackedFieldAlign2}})

RECURSIVE PlaceField(_, _, _, _)
\* while (!CanPlaceFieldAtOffset(D, FieldOffset)) FieldOffset += FieldAlign;
\* returns <<FieldOffset, the map afterwards>>
PlaceField(esm, D, FieldOffset, FieldAlign) ==
    LET r == CanPlaceFieldAtOffset(esm, D, FieldOffset)
    IN IF r[1] THEN <<FieldOffset, r[2]>>
       ELSE PlaceField(r[2], D, FieldOffset + FieldAlign, FieldAlign)

\* D is the FieldDecl, Field its number in the record
LayoutField(b, D, Field) ==
    IF isBitField(D) THEN LayoutBitField(b, D, Field)
    ELSE
    LET UnpaddedFieldOffset == b.DataSize - b.UnfilledBitsInLastUnit
        b0 == [b EXCEPT !.UnfilledBitsInLastUnit = 0, !.LastBitfieldTypeSize = 0]
        FieldPacked == b.Packed \/ D.packed
        FieldOffset0 == IF b.IsUnion THEN 0 ELSE getDataSize(b)
        MaxAlignmentInChars == toCharUnitsFromBits(D.aligned)
        UseMap == ~b.IsUnion /\ b.hasESM
    IN
    Only({
     Only({
      Only({
        Only({
          Only({
            Only({
              LET b4 == IF b.IsUnion
                        THEN [b3 EXCEPT !.DataSize = Max(@, toBits(FieldSize))]
                        ELSE [b3 EXCEPT !.DataSize = toBits(FieldOffset + FieldSize)]
              IN UpdateAlignment([b4 EXCEPT !.Size = Max(@, b4.DataSize)],
                                 FieldAlign, UnpackedFieldAlign)
              \* the offset is recorded and the padding diagnosed
              : b3 \in {
                  LET b2 == [b1 EXCEPT !.FieldOffsets = Append(@, toBits(FieldOffset))]
                  IN IF ~b.ExternalLayout
                     THEN CheckFieldPadding(
                              b2, toBits(FieldOffset), UnpaddedFieldOffset,
                              toBits(RoundUpToAlignment(FieldOffset0, UnpackedFieldAlign)),
                              toBits(UnpackedFieldAlign), FieldPacked, D)
                     ELSE b2}})
            \* the offset of the field and the builder with the map updated
            : FieldOffset \in {IF b.ExternalLayout THEN toCharUnitsFromBits(ext[2])
                               ELSE Placed[1]},
              b1 \in {IF b.ExternalLayout
                      THEN (IF UseMap
                            THEN assertThat(
                                     [ext[1] EXCEPT !.esm = ExtPlaced[2]], ExtPlaced[1],
                                     "Externally-placed field cannot be placed here")
                            ELSE ext[1])
                      ELSE [b0 EXCEPT !.esm = Placed[2]]}})
          : ExtPlaced \in {IF b.ExternalLayout /\ UseMap
                           THEN CanPlaceFieldAtOffset(b.esm, D,
                                                      toCharUnitsFromBits(ext[2]))
                           ELSE <<TRUE, b.esm>>}})
        : ext \in {IF b.ExternalLayout
                   THEN updateExternalFieldOffset(
                            b0, Field,
                            toBits(RoundUpToAlignment(FieldOffset0, FieldAlign)))
                   ELSE <<b0, 0>>},
          Placed \in {IF b.ExternalLayout
                      THEN <<0, b.esm>>
                      ELSE IF UseMap
                      THEN PlaceField(b.esm, D,
                                      RoundUpToAlignment(FieldOffset0, FieldAlign),
                                      FieldAlign)
                      ELSE <<RoundUpToAlignment(FieldOffset0, FieldAlign), b.esm>>}})
      \* the alignments with and without packing
      : FieldAlign \in {
            LET FieldAlign1 == Max(IF FieldPacked THEN 1 ELSE FieldAlign0,
                                   MaxAlignmentInChars)
            IN IF b.MaxFieldAlignment # 0
               THEN Min(FieldAlign1, b.MaxFieldAlignment) ELSE FieldAlign1},
        UnpackedFieldAlign \in {
            LET UnpackedFieldAlign1 == Max(FieldAlign0, MaxAlignmentInChars)
            IN IF b.MaxFieldAlignment # 0
               THEN Min(UnpackedFieldAlign1, b.MaxFieldAlignment)
               ELSE UnpackedFieldAlign1}})
    \* the size and the alignment of the type
    : FieldSize \in {IF D.type.k = "incarray" THEN 0
                     ELSE toCharUnitsFromBits(getTypeInfo(D.type)[1])},
      FieldAlign0 \in {
          LET TypeAlign == toCharUnitsFromBits(getTypeInfo(D.type)[2])
          IN IF /\ D.type.k \in {"builtin", "array"}
                /\ D.type.ek # "record"
                /\ b.IsMsStruct
             THEN Max(TypeAlign, toCharUnitsFromBits(D.type.size))
             ELSE TypeAlign}})

RECURSIVE LayoutFields(_, _, _)
\* the loop of LayoutFields(D) from field number Field on
LayoutFields(b, D, Field) ==
    IF Field > Len(decls[D].fields) THEN b
    ELSE LayoutFields(LayoutField(b, decls[D].fields[Field], Field), D, Field + 1)

\* ext is what ExternalASTSource::layoutRecordType answers for D
InitializeLayout(b, D, ext) ==
    LET b1 == IF isRecord(D)
              THEN [b EXCEPT !.IsUnion = decls[D].isUnion, !.IsMsStruct = decls[D].msStruct]
              ELSE b
        b2 == [b1 EXCEPT !.Packed = decls[D].packed,
                         !.MaxFieldAlignment =
                             IF ctx.PackStruct # 0 THEN ctx.PackStruct ELSE @]
        b3 == IF decls[D].mac68k
              THEN [b2 EXCEPT !.IsMac68kAlign = TRUE, !.MaxFieldAlignment = 2,
                              !.Alignment = 2]
              ELSE LET b30 == IF decls[D].maxFieldAlign # 0
                              THEN [b2 EXCEPT !.MaxFieldAlignment =
                                        toCharUnitsFromBits(decls[D].maxFieldAlign)]
                              ELSE b2
                   IN IF decls[D].aligned # 0
                      THEN UpdateAlignment(b30, toCharUnitsFromBits(decls[D].aligned),
                                           toCharUnitsFromBits(decls[D].aligned))
                      ELSE b30
    IN IF isRecord(D) /\ ctx.hasExternalSource /\ ext.valid
       THEN [b3 EXCEPT !.ExternalLayout = TRUE, !.External = ext,
                       !.Alignment = IF ext.Align > 0 THEN toCharUnitsFromBits(ext.Align)
                                     ELSE @,
                       !.InferAlignment = (ext.Align <= 0)]
       ELSE b3

\* a faulty FinishLayout that leaves the size as the fields left it
LeaveSizeUnrounded(b, D) == b

\* a faulty FinishLayout that rounds the size and lets an empty class have none
RoundSizeOnly(b, D) ==
    [b EXCEPT !.Size = RoundUpToAlignment(@, toBits(b.Alignment)),
              !.SizeAtFinish = b.Size, !.UnroundedSize = b.Size]

\* D is the declaration laid out
FinishLayout(b, D) ==
    LET b0 == IF ctx.CPlusPlus /\ b.Size = 0 /\ (isCXXRecord(D) => isEmpty(D))
              THEN [b EXCEPT !.Size = toBits(1)]
              ELSE b
        b1 == [b0 EXCEPT !.SizeAtFinish = b.Size, !.UnroundedSize = b0.Size]
        UnpaddedSize == b1.Size - b1.UnfilledBitsInLastUnit
        UnpackedSize == toCharUnitsFromBits(
                            RoundUpToAlignment(b1.Size, toBits(b1.UnpackedAlignment)))
        RoundedSize == RoundUpToAlignment(b1.Size, toBits(b1.Alignment))
        b2 == [b1 EXCEPT !.Size = RoundedSize]
        b3 == IF b2.Size > UnpaddedSize THEN Diag(b2, "warn_padded_struct_size", 0)
              ELSE b2
        b4 == IF b.Packed /\ b.UnpackedAlignment > 1 /\ getSize(b2) = UnpackedSize
              THEN Diag(b3, "warn_unnecessary_packed", 0)
              ELSE b3
    IN IF b.ExternalLayout
       THEN (IF b1.InferAlignment /\ b1.External.Size < RoundedSize
             THEN [b1 EXCEPT !.Alignment = 1, !.InferAlignment = FALSE,
                             !.Size = b1.External.Size]
             ELSE [b1 EXCEPT !.Size = b1.External.Size])
       ELSE IF isRecord(D) THEN b4 ELSE b2

\* RecordLayoutBuilder::Layout(const RecordDecl *)
LayoutRecordDecl(b, D, ext) ==
    FinishLayout(LayoutFields(InitializeLayout(b, D, ext), D, 1), D)

\* RecordLayoutBuilder::Layout(const CXXRecordDecl *)
LayoutCXXRecordDecl(b, RD, ext) ==
    Only({
        Only({
            LET AllFound ==
                    /\ \A i \in 1..Len(decls[RD].bases) :
                          decls[RD].bases[i].virt \/ decls[RD].bases[i].cls \in DOMAIN b3.Bases
                    /\ SeqToSet(getVBases(RD)) \subseteq DOMAIN b3.VBases
            IN assertThat(b3, AllFound, "Did not find base offset!")
            : b3 \in {FinishLayout(
                         LayoutVirtualBases(
                             [b1 EXCEPT !.NonVirtualSize =
                                            toCharUnitsFromBits(
                                                RoundUpToAlignment(b1.Size, CharAlign)),
                                        !.NonVirtualAlignment = b1.Alignment,
                                        !.SizeBeforeVBases = b1.Size],
                             RD, RD, 1),
                         RD)}})
        : b1 \in {LayoutFields(LayoutNonVirtualBases(InitializeLayout(b, RD, ext), RD),
                               RD, 1)}})

\* RecordLayoutBuilder::Layout(const ObjCInterfaceDecl *); the layout of the
\* superclass is the one cached under the interface key
LayoutObjCInterfaceDecl(b, D) ==
    LET SD == decls[D].super
        b0 == [b EXCEPT !.Ivars = TRUE]
        b1 == IF SD # 0
              THEN [UpdateAlignment(b0, cache[SD].Alignment, cache[SD].Alignment)
                      EXCEPT !.Size = toBits(cache[SD].DataSize),
                             !.DataSize = toBits(cache[SD].DataSize)]
              ELSE b0
    IN FinishLayout(LayoutFields(InitializeLayout(b1, D, NoExternalLayout), D, 1), D)

(***************************************************************************)
(* ASTRecordLayout construction                                            *)
(***************************************************************************)
\* a faulty mustSkipTailPadding that lets no class keep its tail padding open
AlwaysSkipTailPadding(RD) == TRUE

\* mustSkipTailPadding(ABI, RD)
mustSkipTailPadding(RD) ==
    CASE ctx.TailPaddingUseRules = "AlwaysUseTailPadding" -> FALSE
      [] ctx.TailPaddingUseRules = "UseTailPaddingUnlessPOD03" -> isPOD(RD)
      [] ctx.TailPaddingUseRules = "UseTailPaddingUnlessPOD11" -> isTrivialStandardLayout(RD)

\* the ASTRecordLayout constructor without C++ information
ASTRecordLayout(builder, Size, Alignment, RequiredAlignment, DataSize, FieldOffsets) ==
    [kind |-> "layout", builder |-> builder, cxx |-> FALSE, external |-> FALSE,
     Size |-> Size, Alignment |-> Alignment, RequiredAlignment |-> RequiredAlignment,
     DataSize |-> DataSize, FieldOffsets |-> FieldOffsets,
     HasOwnVFPtr |-> FALSE, HasExtendableVFPtr |-> FALSE, VBPtrOffset |-> 0 - 1,
     NonVirtualSize |-> 0, NonVirtualAlignment |-> 0, SizeOfLargestEmptySubobject |-> 0,
     PrimaryBase |-> 0, PrimaryBaseIsVirtual |-> FALSE, BaseSharingVBPtr |-> 0,
     HasZeroSizedSubObject |-> FALSE, LeadsWithZeroSizedBase |-> FALSE,
     BaseOffsets |-> EmptyMap, VBaseOffsets |-> EmptyMap, VtorDisps |-> {},
     Asserts |-> {}, SizeBeforeVBases |-> 0, SizeAtFinish |-> 0, UnroundedSize |-> 0,
     Outcomes |-> 1, Drawn |-> {}, External |-> NoExternalLayout,
     ComputedOffsets |-> EmptyMap,
     \* history: the calls the EmptySubobjectMap answered and its table at
     \* the end of the layout
     Calls |-> <<>>, EmptyClassOffsets |-> {}, MaxEmptyClassOffset |-> 0,
     \* history: the BaseSubobjectInfo graph of the builder, its two tables
     \* and the claims made while it was built
     g |-> <<>>, VirtualBaseInfo |-> EmptyMap, NonVirtualBaseInfo |-> EmptyMap,
     Claims |-> <<>>]

\* the branches of getASTRecordLayout that run the Itanium builder
BuildItaniumASTRecordLayout(D, ext) ==
    LET esm == EmptySubobjectMap(D)
        skipTailPadding == mustSkipTailPadding(D)
    IN
    Only({
        Only({
            [layout |->
               [ASTRecordLayout("Itanium", getSize(Builder), Builder.Alignment,
                                Builder.Alignment,
                                IF isCXXRecord(D) THEN DataSize ELSE getSize(Builder),
                                Builder.FieldOffsets)
                  EXCEPT
                   !.external = Builder.ExternalLayout,
                   !.Asserts = Builder.Asserts,
                   !.SizeBeforeVBases = Builder.SizeBeforeVBases,
                   !.External = Builder.External,
                   !.ComputedOffsets = Builder.ComputedOffsets,
                   !.SizeAtFinish = Builder.SizeAtFinish,
                   !.UnroundedSize = Builder.UnroundedSize,
                   !.Calls = IF isCXXRecord(D) THEN Builder.esm.Calls ELSE @,
                   !.g = Builder.g,
                   !.VirtualBaseInfo = Builder.VirtualBaseInfo,
                   !.NonVirtualBaseInfo = Builder.NonVirtualBaseInfo,
                   !.Claims = Builder.Claims,
                   !.EmptyClassOffsets =
                       IF isCXXRecord(D) THEN Builder.esm.EmptyClassOffsets ELSE @,
                   !.MaxEmptyClassOffset =
                       IF isCXXRecord(D) THEN Builder.esm.MaxEmptyClassOffset ELSE @,
                   !.cxx = isCXXRecord(D),
                   !.HasOwnVFPtr = IF isCXXRecord(D) THEN Builder.HasOwnVFPtr ELSE @,
                   !.HasExtendableVFPtr = IF isCXXRecord(D) THEN isDynamicClass(D) ELSE @,
                   !.NonVirtualSize = IF ~isCXXRecord(D) THEN @
                                      ELSE IF skipTailPadding THEN DataSize
                                      ELSE Builder.NonVirtualSize,
                   !.NonVirtualAlignment =
                       IF isCXXRecord(D) THEN Builder.NonVirtualAlignment ELSE @,
                   !.SizeOfLargestEmptySubobject =
                       IF isCXXRecord(D) THEN esm.SizeOfLargestEmptySubobject ELSE @,
                   !.PrimaryBase = IF isCXXRecord(D) THEN Builder.PrimaryBase ELSE @,
                   !.PrimaryBaseIsVirtual =
                       IF isCXXRecord(D) THEN Builder.PrimaryBaseIsVirtual ELSE @,
                   !.BaseOffsets = IF isCXXRecord(D) THEN Builder.Bases ELSE @,
                   !.VBaseOffsets = IF isCXXRecord(D) THEN Builder.VBases ELSE @],
             diags |-> Builder.Diags]
            : DataSize \in {IF skipTailPadding THEN getSize(Builder)
                                               ELSE getDataSize(Builder)}})
        : Builder \in {IF isCXXRecord(D)
                       THEN LayoutCXXRecordDecl(RecordLayoutBuilder(TRUE, esm), D, ext)
                       ELSE LayoutRecordDecl(RecordLayoutBuilder(FALSE, NoLayout), D, ext)}})

\* the builder run of getObjCLayout
BuildObjCLayout(D) ==
    Only({[layout |-> [ASTRecordLayout("Itanium", getSize(Builder), Builder.Alignment,
                                       Builder.Alignment, getDataSize(Builder),
                                       Builder.FieldOffsets)
                         EXCEPT !.Asserts = Builder.Asserts],
           diags |-> Builder.Diags]
          : Builder \in {LayoutObjCInterfaceDecl(RecordLayoutBuilder(FALSE, NoLayout), D)}})

(***************************************************************************)
(* MicrosoftRecordLayoutBuilder; every size and offset is in CharUnits but *)
(* FieldOffsets and RemainingBitsInField, which are bits                   *)
(***************************************************************************)
\* the builder right after its constructor ran; CharUnits members start at 0
MicrosoftRecordLayoutBuilder ==
    [Size |-> 0, DataSize |-> 0, Alignment |-> 0, MaxFieldAlignment |-> 0,
     RequiredAlignment |-> 0, CurrentBitfieldSize |-> 0, VBPtrOffset |-> 0,
     PointerInfo |-> [Size |-> 0, Alignment |-> 0],
     PrimaryBase |-> 0, SharedVBPtrBase |-> 0,
     FieldOffsets |-> <<>>, Bases |-> EmptyMap, VBases |-> EmptyMap, VtorDisps |-> {},
     RemainingBitsInField |-> 0, IsUnion |-> FALSE,
     LastFieldIsNonZeroWidthBitfield |-> FALSE, HasOwnVFPtr |-> FALSE,
     HasVBPtr |-> FALSE, Is64BitMode |-> FALSE, HasZeroSizedSubObject |-> FALSE,
     LeadsWithZeroSizedBase |-> FALSE, PreviousBaseLayout |-> 0,
     \* history: the largest number of different results any loop over an
     \* unordered container could end with, and the containers of two or more
     \* elements such a loop ran over
     Outcomes |-> 1, Drawn |-> {}]

\* getAdjustedElementInfo(const ASTRecordLayout &): <<builder, Info>>
getAdjustedElementInfoOfLayout(m, Layout) ==
    LET Align0 == IF m.MaxFieldAlignment # 0
                  THEN Min(Layout.Alignment, m.MaxFieldAlignment)
                  ELSE Layout.Alignment
    IN <<[m EXCEPT !.HasZeroSizedSubObject = @ \/ Layout.HasZeroSizedSubObject,
                   !.Alignment = Max(@, Align0)],
         [Size |-> Layout.DataSize,
          Alignment |-> Max(Align0, Layout.RequiredAlignment)]>>

\* getAdjustedElementInfo(const FieldDecl *): <<builder, Info>>
getAdjustedElementInfo(m, FD) ==
    LET FieldRequiredAlignment == toCharUnitsFromBits(FD.aligned)
        TI == getTypeInfo(FD.type)
        IsRec == getBaseElementRecord(FD.type) # 0
        FromLayout == getAdjustedElementInfoOfLayout(m, cache[getBaseElementRecord(FD.type)])
        m1 == IF IsRec
              THEN [FromLayout[1] EXCEPT !.RequiredAlignment =
                       Max(@, cache[getBaseElementRecord(FD.type)].RequiredAlignment)]
              ELSE m
        A0 == toCharUnitsFromBits(TI[2])
        A1 == IF isBitField(FD) /\ FD.aligned # 0 THEN Max(A0, FieldRequiredAlignment)
              ELSE A0
        A2 == IF IsRec THEN FromLayout[2].Alignment
              ELSE IF m.MaxFieldAlignment # 0 THEN Min(A1, m.MaxFieldAlignment)
              ELSE A1
        A3 == IF FD.packed THEN 1 ELSE A2
        A4 == IF ~isBitField(FD) THEN Max(A3, FieldRequiredAlignment) ELSE A3
        m2 == IF ~isBitField(FD)
              THEN [m1 EXCEPT !.RequiredAlignment = Max(@, FieldRequiredAlignment)]
              ELSE m1
        NewAlignment == IF m.MaxFieldAlignment # 0
                        THEN Min(Max(m2.Alignment, A4), m.MaxFieldAlignment)
                        ELSE Max(m2.Alignment, A4)
        m3 == IF ~(isBitField(FD) /\ m.IsUnion)
              THEN [m2 EXCEPT !.Alignment = NewAlignment]
              ELSE m2
    IN <<m3, [Size |-> toCharUnitsFromBits(TI[1]), Alignment |-> A4]>>

\* MicrosoftRecordLayoutBuilder::initializeLayout
initializeLayout(m, RD) ==
    LET Is64BitMode == ctx.PointerWidth = 64
        Pack0 == IF ctx.PackStruct # 0 THEN ctx.PackStruct ELSE 0
        Pack1 == IF decls[RD].maxFieldAlign # 0 /\ decls[RD].maxFieldAlign <= ctx.PointerWidth
                 THEN toCharUnitsFromBits(decls[RD].maxFieldAlign)
                 ELSE Pack0
    IN [m EXCEPT !.IsUnion = decls[RD].isUnion,
                 !.Is64BitMode = Is64BitMode,
                 !.Size = 0,
                 !.Alignment = 1,
                 !.RequiredAlignment = Max(IF Is64BitMode THEN 1 ELSE 0,
                                           toCharUnitsFromBits(decls[RD].aligned)),
                 !.MaxFieldAlignment = IF decls[RD].packed THEN 1 ELSE Pack1]

\* MicrosoftRecordLayoutBuilder::initializeCXXLayout
initializeCXXLayout(m, RD) ==
    LET PtrSize == toCharUnitsFromBits(ctx.PointerWidth)
    IN [m EXCEPT !.HasZeroSizedSubObject = FALSE, !.LeadsWithZeroSizedBase = FALSE,
                 !.HasOwnVFPtr = FALSE, !.HasVBPtr = FALSE,
                 !.PrimaryBase = 0, !.SharedVBPtrBase = 0,
                 !.PointerInfo = [Size |-> PtrSize,
                                  Alignment |-> IF m.MaxFieldAlignment # 0
                                                THEN Min(PtrSize, m.MaxFieldAlignment)
                                                ELSE PtrSize]]

\* PreviousBaseLayout is kept in the builder record as the class it is of
layoutNonVirtualBase(m, BaseDecl) ==
    LET BaseLayout == cache[BaseDecl]
        Pad == /\ m.PreviousBaseLayout # 0
               /\ cache[m.PreviousBaseLayout].HasZeroSizedSubObject
               /\ BaseLayout.LeadsWithZeroSizedBase
    IN Only({
           LET BaseOffset == RoundUpToAlignment(r[1].Size, r[2].Alignment)
           IN [r[1] EXCEPT !.Bases = MapInsert(@, BaseDecl, BaseOffset),
                           !.Size = BaseOffset + BaseLayout.DataSize,
                           !.PreviousBaseLayout = BaseDecl,
                           !.VBPtrOffset = BaseOffset + BaseLayout.DataSize]
           : r \in {getAdjustedElementInfoOfLayout(
                        [m EXCEPT !.Size = IF Pad THEN @ + 1 ELSE @], BaseLayout)}})

RECURSIVE layoutNonVirtualBasesPass1(_, _, _), layoutNonVirtualBasesPass2(_, _, _, _)

\* the first loop of layoutNonVirtualBases, from base number i on
layoutNonVirtualBasesPass1(m, RD, i) ==
    IF i > Len(decls[RD].bases) THEN m
    ELSE LET B == decls[RD].bases[i]
             BaseLayout == cache[B.cls]
             m1 == [m EXCEPT !.RequiredAlignment = Max(@, BaseLayout.RequiredAlignment)]
             Share == m1.SharedVBPtrBase = 0 /\ BaseLayout.VBPtrOffset >= 0
             m2 == IF Share THEN [m1 EXCEPT !.SharedVBPtrBase = B.cls, !.HasVBPtr = TRUE]
                   ELSE m1
             m3 == IF m2.PrimaryBase = 0
                   THEN [m2 EXCEPT !.PrimaryBase = B.cls,
                                   !.LeadsWithZeroSizedBase = BaseLayout.LeadsWithZeroSizedBase]
                   ELSE m2
         IN layoutNonVirtualBasesPass1(
                IF B.virt THEN [m1 EXCEPT !.HasVBPtr = TRUE]
                ELSE IF ~BaseLayout.HasExtendableVFPtr THEN m2
                ELSE layoutNonVirtualBase(m3, B.cls),
                RD, i + 1)

\* the second loop of layoutNonVirtualBases, from base number i on
layoutNonVirtualBasesPass2(m, RD, CheckLeadingLayout, i) ==
    IF i > Len(decls[RD].bases) THEN m
    ELSE LET B == decls[RD].bases[i]
             BaseLayout == cache[B.cls]
             m1 == IF CheckLeadingLayout
                   THEN [m EXCEPT !.LeadsWithZeroSizedBase = BaseLayout.LeadsWithZeroSizedBase]
                   ELSE m
         IN IF B.virt \/ BaseLayout.HasExtendableVFPtr
            THEN layoutNonVirtualBasesPass2(m, RD, CheckLeadingLayout, i + 1)
            ELSE layoutNonVirtualBasesPass2(layoutNonVirtualBase(m1, B.cls), RD, FALSE, i + 1)

\* a faulty layoutNonVirtualBases that gives every dynamic class a vfptr of
\* its own
layoutNonVirtualBasesOwnVFPtr(m, RD) ==
    LET m1 == layoutNonVirtualBasesPass1([m EXCEPT !.PreviousBaseLayout = 0], RD, 1)
        m3 == layoutNonVirtualBasesPass2([m1 EXCEPT !.HasOwnVFPtr = isDynamicClass(RD)],
                                         RD, m1.PrimaryBase = 0, 1)
    IN IF ~m3.HasVBPtr THEN [m3 EXCEPT !.VBPtrOffset = 0 - 1]
       ELSE IF m3.SharedVBPtrBase # 0
       THEN [m3 EXCEPT !.VBPtrOffset = MapLookup(m3.Bases, m3.SharedVBPtrBase)
                                          + cache[m3.SharedVBPtrBase].VBPtrOffset]
       ELSE m3

\* MicrosoftRecordLayoutBuilder::layoutNonVirtualBases
layoutNonVirtualBases(m, RD) ==
    LET Fresh == \E i \in 1..Len(decls[RD].methods) :
                    /\ decls[RD].methods[i].isVirtual
                    /\ decls[RD].methods[i].overridden = {}
    IN
    Only({
      Only({
        IF ~m3.HasVBPtr THEN [m3 EXCEPT !.VBPtrOffset = 0 - 1]
        ELSE IF m3.SharedVBPtrBase # 0
        THEN [m3 EXCEPT !.VBPtrOffset = MapLookup(m3.Bases, m3.SharedVBPtrBase)
                                           + cache[m3.SharedVBPtrBase].VBPtrOffset]
        ELSE m3
        \* the second pass, behind the own vfptr if the class has one
        : m3 \in {LET m2 == IF /\ m1.PrimaryBase = 0
                               /\ isDynamicClass(RD)
                               /\ ~m1.HasOwnVFPtr
                            THEN [m1 EXCEPT !.HasOwnVFPtr = Fresh]
                            ELSE m1
                  IN layoutNonVirtualBasesPass2(m2, RD, m2.PrimaryBase = 0, 1)}})
      : m1 \in {layoutNonVirtualBasesPass1([m EXCEPT !.PreviousBaseLayout = 0], RD, 1)}})

\* MicrosoftRecordLayoutBuilder::layoutZeroWidthBitField
layoutZeroWidthBitField(m, FD) ==
    IF ~m.LastFieldIsNonZeroWidthBitfield
    THEN [m EXCEPT !.FieldOffsets = Append(@, toBits(IF m.IsUnion THEN 0 ELSE m.Size))]
    ELSE Only({
           LET FieldOffset == RoundUpToAlignment(r[1].Size, r[2].Alignment)
           IN IF m.IsUnion
              THEN [r[1] EXCEPT !.FieldOffsets = Append(@, 0), !.Size = Max(@, r[2].Size)]
              ELSE [r[1] EXCEPT !.FieldOffsets = Append(@, toBits(FieldOffset)),
                                !.Size = FieldOffset]
           : r \in {getAdjustedElementInfo(
                        [m EXCEPT !.LastFieldIsNonZeroWidthBitfield = FALSE], FD)}})

\* a faulty layoutBitField that leaves the whole new allocation free for the
\* bit-fields that follow
layoutBitFieldWholeUnitFree(m, FD) ==
    IF FD.width = 0 THEN layoutZeroWidthBitField(m, FD)
    ELSE
    Only({
    LET Info == r[2]
        Width == Min(FD.width, toBits(Info.Size))
        FieldOffset == RoundUpToAlignment(r[1].Size, Info.Alignment)
        m1 == [r[1] EXCEPT !.LastFieldIsNonZeroWidthBitfield = TRUE,
                           !.CurrentBitfieldSize = Info.Size]
    IN IF /\ ~m.IsUnion
               /\ m.LastFieldIsNonZeroWidthBitfield
               /\ m.CurrentBitfieldSize = Info.Size
               /\ Width <= m.RemainingBitsInField
       THEN [r[1] EXCEPT !.FieldOffsets =
                             Append(@, toBits(r[1].Size) - m.RemainingBitsInField),
                         !.RemainingBitsInField = @ - Width]
       ELSE IF m.IsUnion
       THEN [m1 EXCEPT !.FieldOffsets = Append(@, 0), !.Size = Max(@, Info.Size)]
       ELSE [m1 EXCEPT !.FieldOffsets = Append(@, toBits(FieldOffset)),
                       !.Size = FieldOffset + Info.Size,
                       !.RemainingBitsInField = toBits(Info.Size)]
    : r \in {getAdjustedElementInfo(m, FD)}})

\* MicrosoftRecordLayoutBuilder::layoutBitField
layoutBitField(m, FD) ==
    IF FD.width = 0 THEN layoutZeroWidthBitField(m, FD)
    ELSE
    Only({
    LET Info == r[2]
        Width == Min(FD.width, toBits(Info.Size))
        FieldOffset == RoundUpToAlignment(r[1].Size, Info.Alignment)
        m1 == [r[1] EXCEPT !.LastFieldIsNonZeroWidthBitfield = TRUE,
                           !.CurrentBitfieldSize = Info.Size]
    IN IF /\ ~m.IsUnion
               /\ m.LastFieldIsNonZeroWidthBitfield
               /\ m.CurrentBitfieldSize = Info.Size
               /\ Width <= m.RemainingBitsInField
       THEN [r[1] EXCEPT !.FieldOffsets =
                             Append(@, toBits(r[1].Size) - m.RemainingBitsInField),
                         !.RemainingBitsInField = @ - Width]
       ELSE IF m.IsUnion
       THEN [m1 EXCEPT !.FieldOffsets = Append(@, 0), !.Size = Max(@, Info.Size)]
       ELSE [m1 EXCEPT !.FieldOffsets = Append(@, toBits(FieldOffset)),
                       !.Size = FieldOffset + Info.Size,
                       !.RemainingBitsInField = toBits(Info.Size) - Width]
    : r \in {getAdjustedElementInfo(m, FD)}})

\* a faulty layoutField that puts every member, of a union too, at the end
layoutFieldAtEnd(m, FD) ==
    [m EXCEPT !.FieldOffsets = Append(@, toBits(m.Size)), !.Size = @ + 1]

\* MicrosoftRecordLayoutBuilder::layoutField
layoutField(m, FD) ==
    IF isBitField(FD) THEN layoutBitField(m, FD)
    ELSE Only({
           LET FieldOffset == RoundUpToAlignment(r[1].Size, r[2].Alignment)
           IN IF m.IsUnion
              THEN [r[1] EXCEPT !.FieldOffsets = Append(@, 0), !.Size = Max(@, r[2].Size)]
              ELSE [r[1] EXCEPT !.FieldOffsets = Append(@, toBits(FieldOffset)),
                                !.Size = FieldOffset + r[2].Size]
           : r \in {getAdjustedElementInfo(
                        [m EXCEPT !.LastFieldIsNonZeroWidthBitfield = FALSE], FD)}})

RECURSIVE layoutFieldsFrom(_, _, _)
\* the loop of layoutFields, from field number i on
layoutFieldsFrom(m, RD, i) ==
    IF i > Len(decls[RD].fields) THEN m
    ELSE layoutFieldsFrom(layoutField(m, decls[RD].fields[i]), RD, i + 1)

\* MicrosoftRecordLayoutBuilder::layoutFields
layoutFields(m, RD) ==
    layoutFieldsFrom([m EXCEPT !.LastFieldIsNonZeroWidthBitfield = FALSE], RD, 1)

\* a faulty injectVBPtr that puts the pointer at the injection site as it is
injectVBPtrUnaligned(m) ==
    IF ~m.HasVBPtr \/ m.SharedVBPtrBase # 0 THEN m
    ELSE [m EXCEPT !.Size = @ + m.PointerInfo.Size,
                   !.FieldOffsets = [i \in 1..Len(@) |-> @[i] + toBits(m.PointerInfo.Size)]]

\* the orders a loop may take the elements of an unordered container in
Orders(S) ==
    {o \in [1..Cardinality(S) -> S] : \A i, j \in 1..Cardinality(S) : i # j => o[i] # o[j]}

RECURSIVE PushBackBases(_, _, _, _, _)
\* the loop over the base-offset map that pushes back by Offset every base
\* at or after InjectionSite, taking the entries in the given order from
\* number i on
PushBackBases(Bases, order, i, InjectionSite, Offset) ==
    IF i > Len(order) THEN Bases
    ELSE PushBackBases(IF Bases[order[i]] >= InjectionSite
                       THEN [Bases EXCEPT ![order[i]] = @ + Offset]
                       ELSE Bases,
                       order, i + 1, InjectionSite, Offset)

\* The builder after such a loop.  The DenseMap hands out its entries in an
\* order of its own: the loop is run in every order, Outcomes keeps the
\* number of different results, and the builder goes on with one of them.
PushBackAllBases(m, InjectionSite, Offset) ==
    Only({
        [m EXCEPT !.Bases = CHOOSE B \in Results : TRUE,
                  !.Outcomes = Max(@, Cardinality(Results)),
                  !.Drawn = IF Cardinality(DOMAIN m.Bases) >= 2 THEN @ \cup {"Bases"} ELSE @]
        : Results \in {{PushBackBases(m.Bases, o, 1, InjectionSite, Offset) :
                           o \in Orders(DOMAIN m.Bases)}}})

\* MicrosoftRecordLayoutBuilder::injectVBPtr
injectVBPtr(m) ==
    IF ~m.HasVBPtr \/ m.SharedVBPtrBase # 0 THEN m
    ELSE LET InjectionSite == m.VBPtrOffset
             NewVBPtrOffset == RoundUpToAlignment(m.VBPtrOffset, m.PointerInfo.Alignment)
             FieldStart == NewVBPtrOffset + m.PointerInfo.Size
             Offset == RoundUpToAlignment(FieldStart - InjectionSite, m.Alignment)
         IN [PushBackAllBases(m, InjectionSite, Offset)
                EXCEPT !.VBPtrOffset = NewVBPtrOffset,
                       !.Size = @ + Offset,
                       !.FieldOffsets = [i \in 1..Len(@) |-> @[i] + toBits(Offset)],
                       !.HasZeroSizedSubObject = FALSE]

\* MicrosoftRecordLayoutBuilder::injectVFPtr
injectVFPtr(m) ==
    IF ~m.HasOwnVFPtr THEN m
    ELSE LET Offset == RoundUpToAlignment(m.PointerInfo.Size, m.Alignment)
         \* every base is pushed back: all of them are at or after offset 0
         IN [PushBackAllBases(m, 0, Offset)
                EXCEPT !.Size = @ + Offset,
                       !.FieldOffsets = [i \in 1..Len(@) |-> @[i] + toBits(Offset)],
                       !.VBPtrOffset = IF m.HasVBPtr THEN @ + Offset ELSE @]

RECURSIVE LastTwoBases(_, _, _, _, _)
\* the loop of injectVPtrs that finds <<PenultBaseDecl, LastBaseDecl>>
LastTwoBases(m, RD, i, Penult, Last) ==
    IF i > Len(decls[RD].bases) THEN <<Penult, Last>>
    ELSE LET B == decls[RD].bases[i]
         IN IF ~B.virt /\ (Last = 0 \/ MapLookup(m.Bases, B.cls) > MapLookup(m.Bases, Last))
            THEN LastTwoBases(m, RD, i + 1, Last, B.cls)
            ELSE LastTwoBases(m, RD, i + 1, Penult, Last)

\* MicrosoftRecordLayoutBuilder::injectVPtrs
injectVPtrs(m, RD) ==
    IF ~(m.HasOwnVFPtr \/ (m.HasVBPtr /\ m.SharedVBPtrBase = 0)) THEN m
    ELSE IF ~m.Is64BitMode \/ m.RequiredAlignment <= 8
    THEN [injectVFPtr(injectVBPtr(m)) EXCEPT !.Alignment = Max(@, m.PointerInfo.Alignment)]
    ELSE
    Only({
    LET LT == LastTwoBases(m1, RD, 1, 0, 0)
        LastZero == LT[2] # 0 /\ cache[LT[2]].DataSize = 0
        PenultZero == LT[1] # 0 /\ cache[LT[1]].DataSize = 0
        Site == IF LastZero
                THEN (IF PenultZero THEN MapLookup(m1.Bases, LT[1])
                      ELSE MapLookup(m1.Bases, LT[2]))
                ELSE m1.Size
        NewVBPtrOffset == RoundUpToAlignment(Site, m1.PointerInfo.Alignment)
        Size1 == NewVBPtrOffset + m1.PointerInfo.Size
        Size2 == RoundUpToAlignment(IF PenultZero THEN Size1 + 1 ELSE Size1,
                                    cache[LT[2]].RequiredAlignment)
        m2 == IF m1.HasVBPtr /\ m1.SharedVBPtrBase = 0
              THEN [m1 EXCEPT !.VBPtrOffset = NewVBPtrOffset,
                              !.Size = IF LastZero THEN Size2 ELSE Size1,
                              !.Bases = IF LastZero THEN MapSet(@, LT[2], Size2) ELSE @]
              ELSE m1
    IN [layoutFields(m2, RD) EXCEPT !.HasZeroSizedSubObject = FALSE]
    : m1 \in {layoutNonVirtualBases(
                  [m EXCEPT !.FieldOffsets = <<>>, !.Bases = EmptyMap,
                            !.Size = IF m.HasOwnVFPtr THEN m.PointerInfo.Size ELSE 0,
                            !.Alignment = Max(@, m.PointerInfo.Alignment)], RD)}})

\* a faulty check that looks at the class itself only
VtordispOfClassItself(HasVtordisp, RD) == RD \in HasVtordisp

RECURSIVE RequiresVtordisp(_, _)
\* RequiresVtordisp: RD or, recursively, one of its non-virtual bases is in
\* the set
RequiresVtordisp(HasVtordisp, RD) ==
    \/ RD \in HasVtordisp
    \/ \E i \in 1..Len(decls[RD].bases) :
          ~decls[RD].bases[i].virt /\ RequiresVtordisp(HasVtordisp, decls[RD].bases[i].cls)

\* a faulty work loop that stops after the first method it draws
FirstVtableParent(Work) ==
    {IF decls[MD[1]].methods[MD[2]].overridden = {} THEN {MD[1]}
     ELSE {Over[1] : Over \in decls[MD[1]].methods[MD[2]].overridden} : MD \in Work}

RECURSIVE VtableParents(_)
\* The work loop of computeVtorDispSet, started with the set Work of
\* <<class, method number>> pairs: *Work.begin() is any element of the
\* SmallPtrSet; the parent of a method without overridden methods is
\* inserted, the overridden methods of another one join the work set.  The
\* value is the set of the sets of parents the loop can end with.
VtableParents(Work) ==
    IF Work = {} THEN {{}}
    ELSE UNION {LET Over == decls[MD[1]].methods[MD[2]].overridden
                IN {(IF Over = {} THEN {MD[1]} ELSE {}) \cup Parents :
                       Parents \in VtableParents((Work \cup Over) \ {MD})}
                : MD \in Work}

\* the seed of the work set: the virtual methods of RD that are no destructor
VtorDispWorkSeed(RD) ==
    {<<RD, i>> : i \in {j \in 1..Len(decls[RD].methods) :
                           /\ decls[RD].methods[j].isVirtual
                           /\ ~decls[RD].methods[j].isDtor}}

\* MicrosoftRecordLayoutBuilder::computeVtorDispSet: the sets it can return
computeVtorDispSet(RD) ==
    LET FromBases == UNION {cache[decls[RD].bases[i].cls].VtorDisps :
                            i \in 1..Len(decls[RD].bases)}
        Sets1 == IF decls[RD].hasUserDeclaredCtorOrDtor
                 THEN {FromBases \cup Parents : Parents \in VtableParents(VtorDispWorkSeed(RD))}
                 ELSE {FromBases}
    IN {Set1 \cup {V \in SeqToSet(getVBases(RD)) : RequiresVtordisp(Set1, V)} :
           Set1 \in Sets1}

RECURSIVE layoutVirtualBasesFrom(_, _, _, _, _)
\* the loop of layoutVirtualBases over the virtual bases VBs, from number i on
layoutVirtualBasesFrom(m, VBs, HasVtordispSet, VtorDispAlignment, i) ==
    IF i > Len(VBs) THEN m
    ELSE LET BaseDecl == VBs[i]
             BaseLayout == cache[BaseDecl]
             HasVtordisp == BaseDecl \in HasVtordispSet
             VtorDispSize == 4
             S1 == IF m.LastFieldIsNonZeroWidthBitfield
                   THEN m.Size + m.CurrentBitfieldSize ELSE m.Size
             S2 == IF /\ m.PreviousBaseLayout # 0
                      /\ cache[m.PreviousBaseLayout].HasZeroSizedSubObject
                      /\ BaseLayout.LeadsWithZeroSizedBase
                   THEN RoundUpToAlignment(S1, VtorDispAlignment) + VtorDispSize
                   ELSE S1
             S3 == IF HasVtordisp
                   THEN RoundUpToAlignment(S2, VtorDispAlignment) + VtorDispSize
                   ELSE S2
             r == getAdjustedElementInfoOfLayout([m EXCEPT !.Size = S3], BaseLayout)
             BaseOffset == RoundUpToAlignment(S3, r[2].Alignment)
         IN layoutVirtualBasesFrom(
                [r[1] EXCEPT !.VBases = MapInsert(@, BaseDecl, BaseOffset),
                             !.VtorDisps = IF HasVtordisp /\ BaseDecl \notin DOMAIN m.VBases
                                           THEN @ \cup {BaseDecl} ELSE @,
                             !.Size = BaseOffset + BaseLayout.DataSize,
                             !.PreviousBaseLayout = BaseDecl],
                VBs, HasVtordispSet, VtorDispAlignment, i + 1)

\* a faulty layoutVirtualBases that places no virtual base
SkipVirtualBases(m, RD) == m

\* MicrosoftRecordLayoutBuilder::layoutVirtualBases
layoutVirtualBases(m, RD) ==
    IF ~m.HasVBPtr THEN m
    ELSE LET A0 == IF m.MaxFieldAlignment # 0 THEN Min(4, m.MaxFieldAlignment) ELSE 4
             VtorDispAlignment == Max(A0, m.RequiredAlignment)
         IN Only({
                layoutVirtualBasesFrom(
                    [m EXCEPT !.PreviousBaseLayout = 0,
                              !.Outcomes = Max(@, Cardinality(Sets)),
                              !.Drawn = IF /\ decls[RD].hasUserDeclaredCtorOrDtor
                                           /\ Cardinality(VtorDispWorkSeed(RD)) >= 2
                                        THEN @ \cup {"Work"} ELSE @],
                    getVBases(RD), CHOOSE Set \in Sets : TRUE,
                    VtorDispAlignment, 1)
                : Sets \in {computeVtorDispSet(RD)}})

\* MicrosoftRecordLayoutBuilder::finalizeLayout
finalizeLayout(m) ==
    LET m1 == IF m.RequiredAlignment # 0
              THEN [m EXCEPT !.Alignment = Max(@, m.RequiredAlignment),
                             !.Size = RoundUpToAlignment(@, Max(m.Alignment,
                                                                m.RequiredAlignment))]
              ELSE m
    IN IF m1.Size = 0
       THEN [m1 EXCEPT !.HasZeroSizedSubObject = TRUE, !.LeadsWithZeroSizedBase = TRUE,
                       !.Size = m1.Alignment]
       ELSE m1

\* MicrosoftRecordLayoutBuilder::layout
layout(m, RD) ==
    Only({
        LET Rounded == RoundUpToAlignment(m1.Size, m1.Alignment)
        IN finalizeLayout([m1 EXCEPT !.Size = Rounded, !.DataSize = Rounded])
        : m1 \in {layoutFields(initializeLayout(m, RD), RD)}})

\* MicrosoftRecordLayoutBuilder::cxxLayout
cxxLayout(m, RD) ==
    Only({
        LET Rounded == RoundUpToAlignment(m1.Size, m1.Alignment)
        IN finalizeLayout(layoutVirtualBases([m1 EXCEPT !.Size = Rounded,
                                                        !.DataSize = Rounded], RD))
        : m1 \in {injectVPtrs(
                      layoutFields(
                          layoutNonVirtualBases(
                              initializeCXXLayout(initializeLayout(m, RD), RD), RD), RD),
                      RD)}})

\* ASTContext::BuildMicrosoftASTRecordLayout
BuildMicrosoftASTRecordLayout(D) ==
    Only({
    LET Plain == ASTRecordLayout("Microsoft", Builder.Size, Builder.Alignment,
                                 Builder.RequiredAlignment,
                                 IF isCXXRecord(D) THEN Builder.DataSize ELSE Builder.Size,
                                 Builder.FieldOffsets)
    IN [layout |->
           IF isCXXRecord(D)
           THEN [Plain EXCEPT
                   !.cxx = TRUE,
                   !.Outcomes = Builder.Outcomes,
                   !.Drawn = Builder.Drawn,
                   !.HasOwnVFPtr = Builder.HasOwnVFPtr,
                   !.HasExtendableVFPtr = Builder.HasOwnVFPtr \/ Builder.PrimaryBase # 0,
                   !.VBPtrOffset = Builder.VBPtrOffset,
                   !.NonVirtualSize = Builder.DataSize,
                   !.NonVirtualAlignment = Builder.Alignment,
                   !.SizeOfLargestEmptySubobject = 0,
                   !.PrimaryBase = Builder.PrimaryBase,
                   !.PrimaryBaseIsVirtual = FALSE,
                   !.BaseSharingVBPtr = Builder.SharedVBPtrBase,
                   !.HasZeroSizedSubObject = Builder.HasZeroSizedSubObject,
                   !.LeadsWithZeroSizedBase = Builder.LeadsWithZeroSizedBase,
                   !.BaseOffsets = Builder.Bases,
                   !.VBaseOffsets = Builder.VBases,
                   !.VtorDisps = Builder.VtorDisps]
           ELSE Plain,
        diags |-> {}]
    : Builder \in {IF isCXXRecord(D) THEN cxxLayout(MicrosoftRecordLayoutBuilder, D)
                   ELSE layout(MicrosoftRecordLayoutBuilder, D)}})

(***************************************************************************)
(* Targets and translation units the layouts are computed for              *)
(***************************************************************************)
MaxFields == 3
MaxBases == 2

Itanium64 == [abi |-> "Itanium", PointerWidth |-> 64, PointerAlign |-> 64, CPlusPlus |-> TRUE, useBitFieldTypeAlignment |-> TRUE, useZeroLengthBitfieldAlignment |-> FALSE, ZeroLengthBitfieldBoundary |-> 0, TailPaddingUseRules |-> "UseTailPaddingUnlessPOD03", PackStruct |-> 0, hasExternalSource |-> FALSE, LongWidth |-> 64, LongLongAlign |-> 64]
Itanium64C == [Itanium64 EXCEPT !.CPlusPlus = FALSE]
\* a target without bit-field type alignment, with a zero-length bit-field boundary
ItaniumApcs == [Itanium64C EXCEPT !.PointerWidth = 32, !.PointerAlign = 32, !.LongWidth = 32, !.useBitFieldTypeAlignment = FALSE, !.useZeroLengthBitfieldAlignment = TRUE, !.ZeroLengthBitfieldBoundary = 32]
Microsoft32 == [Itanium64 EXCEPT !.abi = "Microsoft", !.PointerWidth = 32, !.PointerAlign = 32, !.LongWidth = 32, !.TailPaddingUseRules = "AlwaysUseTailPadding"]
Microsoft64 == [Itanium64 EXCEPT !.abi = "Microsoft", !.LongWidth = 32, !.TailPaddingUseRules = "AlwaysUseTailPadding"]
\* a C translation unit compiled for the 32-bit Microsoft target
Microsoft32C == [Microsoft32 EXCEPT !.CPlusPlus = FALSE]
WithExternalSource(c) == [c EXCEPT !.hasExternalSource = TRUE]
WithPackStruct(c, n) == [c EXCEPT !.PackStruct = n]

CharTy == BuiltinType(8, 8)
IntTy == BuiltinType(32, 32)
LongLongTy == BuiltinType(64, 64)

SeqsUpTo(S, n) == UNION {[1..k -> S] : k \in 0..n}

\* the member declarations of the generated records
PlainFields == {PlainField(CharTy), PlainField(IntTy), PlainField(LongLongTy)}
BitFields == {FieldDecl(IntTy, 3, TRUE), FieldDecl(CharTy, 5, TRUE), FieldDecl(IntTy, 30, TRUE), FieldDecl(IntTy, 0, FALSE)}
WideBitFields == {FieldDecl(CharTy, 12, TRUE)}
FieldChoices(c) == PlainFields \cup BitFields \cup (IF c.CPlusPlus THEN WideBitFields ELSE {})

\* a record made by a client of the AST without source locations
WithoutLocation(d) ==
    [d EXCEPT !.fields = [i \in 1..Len(@) |-> [@[i] EXCEPT !.loc = FALSE]]]

\* the attributes and pragmas of the generated records
RecordVariants(d) ==
    {d, [d EXCEPT !.isUnion = TRUE], [d EXCEPT !.packed = TRUE],
     [d EXCEPT !.maxFieldAlign = 16], [d EXCEPT !.msStruct = TRUE],
     [d EXCEPT !.aligned = 64], WithoutLocation(d)}

\* the first classes of a hierarchy
Virtual_f == CXXMethodDecl(TRUE, FALSE, {})
RootClasses ==
    {RecordDecl(<<>>, <<>>),
     RecordDecl(<<>>, <<PlainField(CharTy)>>),
     [RecordDecl(<<>>, <<>>) EXCEPT !.methods = <<Virtual_f>>],
     [RecordDecl(<<>>, <<PlainField(IntTy), PlainField(CharTy)>>) EXCEPT
         !.methods = <<Virtual_f>>, !.hasUserDeclaredCtorOrDtor = TRUE],
     [RecordDecl(<<>>, <<PlainField(IntTy)>>) EXCEPT !.aligned = 128]}

\* base-specifier lists over the classes 1..n, no class named twice
BaseLists(n) ==
    {bs \in SeqsUpTo({BaseSpecifier(D, v) : D \in 1..n, v \in BOOLEAN}, MaxBases) :
        \A i, j \in 1..Len(bs) : i # j => bs[i].cls # bs[j].cls}

\* the classes a hierarchy adds as its (n+1)-th declaration
DerivedClasses(n, fss, mss) ==
    {[RecordDecl(bs, fs) EXCEPT !.methods = ms] :
        bs \in BaseLists(n), fs \in fss, ms \in mss}

\* Objective-C interfaces: a root class and a subclass
ObjCInterfaceDecl(super, fs, synth) == [RecordDecl(<<>>, fs) EXCEPT !.kind = "objc", !.super = super, !.synth = synth]
IvarLists == SeqsUpTo({PlainField(CharTy), PlainField(IntTy), FieldDecl(IntTy, 3, TRUE)}, 2)
\* the values an external source answers with: sizes, alignments and field
\* offsets in bits, base offsets in chars
ExternalSizes == {40, 64, 96}
ExternalAligns == {0, 8, 32}
ExternalFieldOffsets == {0, 8, 32, 40, 64, 72}
ExternalBaseOffsets == {0, 4}

\* translation units with one record made of fields
FieldUnit ==
    \E c \in {Itanium64, Itanium64C, ItaniumApcs, Microsoft32, Microsoft32C} :
        \E fs \in SeqsUpTo(FieldChoices(c), MaxFields) :
            \E d \in RecordVariants(RecordDecl(<<>>, fs)) :
                ctx = c /\ decls = <<d>>

\* translation units with a hierarchy of three classes
HierarchyUnit ==
    \E c \in {Itanium64, Microsoft32, Microsoft64, WithPackStruct(Microsoft32, 2)} :
        \E r \in RootClasses :
            \E d2 \in DerivedClasses(1, {<<>>, <<PlainField(CharTy)>>}, {<<>>, <<Virtual_f>>}) :
                \E d3 \in DerivedClasses(2, {<<PlainField(CharTy)>>}, {<<>>}) :
                    ctx = c /\ decls = <<r, d2, d3>>

\* translation units with a hierarchy of four classes: a root that is empty
\* or nearly empty, a class over it, and two more over these, with virtual
\* and non-virtual bases that several paths share
DiamondUnit ==
    \E r \in {RecordDecl(<<>>, <<>>),
               [RecordDecl(<<>>, <<>>) EXCEPT !.methods = <<Virtual_f>>]} :
        \E d2 \in DerivedClasses(1, {<<>>, <<PlainField(CharTy)>>}, {<<>>}) :
            \E d3 \in DerivedClasses(2, {<<>>}, {<<>>}) :
                \E d4 \in DerivedClasses(3, {<<PlainField(CharTy)>>}, {<<>>}) :
                    /\ Len(d2.bases) = 1 /\ Len(d3.bases) > 0
                    /\ \E i \in 1..Len(d4.bases) : d4.bases[i].cls = 3
                    /\ ctx = Itanium64 /\ decls = <<r, d2, d3, d4>>

\* translation units with an Objective-C root class and a subclass
ObjCUnit ==
    \E fs1 \in IvarLists, fs2 \in IvarLists, s \in {0, 1} :
        /\ ctx = Itanium64C
        /\ decls = <<ObjCInterfaceDecl(0, fs1, 0), ObjCInterfaceDecl(1, fs2, s)>>

\* translation units whose records an external source may lay out
ExternalUnit ==
    \E c \in {WithExternalSource(Itanium64), WithExternalSource(Microsoft32),
               WithExternalSource(Microsoft32C)} :
        \E fs \in {<<PlainField(IntTy), PlainField(CharTy)>>,
                   <<PlainField(CharTy), PlainField(IntTy)>>} \cup
                  (IF c.CPlusPlus THEN {<<PlainField(CharTy), FieldDecl(CharTy, 12, TRUE)>>}
                   ELSE {}) :
            \E u \in BOOLEAN, bs \in {<<>>, <<BaseSpecifier(1, FALSE)>>} :
                /\ ctx = c
                /\ c.CPlusPlus \/ bs = <<>>
                /\ decls = <<[RecordDecl(<<>>, fs) EXCEPT !.isUnion = u],
                             RecordDecl(IF u THEN <<>> ELSE bs, <<PlainField(CharTy)>>)>>

\* translation units with an empty class, a struct or union with empty
\* members, and a class with bases and members of these types
Empty == RecordDecl(<<>>, <<>>)
EmptyMemberUnit ==
    \E c \in {Itanium64, Microsoft32} :
        \E fs2 \in SeqsUpTo({PlainField(RecordType(1)), PlainField(CharTy), PlainField(RecordArrayType(1, 2))}, 2) :
            \E u \in BOOLEAN :
                \E bs3 \in {bs \in BaseLists(2) : \A i \in 1..Len(bs) : ~bs[i].virt /\ (bs[i].cls = 2 => ~u)} :
                    \E fs3 \in {<<>>, <<PlainField(RecordType(1))>>, <<PlainField(RecordType(2))>>, <<PlainField(RecordType(2)), PlainField(RecordType(1))>>} :
                        /\ ctx = c
                        /\ decls = <<Empty, [RecordDecl(<<>>, fs2) EXCEPT !.isUnion = u], RecordDecl(bs3, fs3)>>

\* translation units with a class that overrides virtual functions of its
\* bases: A declares f, C may inherit A virtually and override f, and D
\* takes each of A, B and C as a non-virtual base, as a virtual base or not
\* at all, declares a constructor and two virtual functions
Virtual_g == CXXMethodDecl(TRUE, FALSE, {})
Overrider(over) == CXXMethodDecl(TRUE, FALSE, over)
OverriderUnit ==
    \E c \in {Microsoft32, Microsoft64} :
        \E fsB \in {<<>>, <<PlainField(CharTy)>>}, derivedC \in BOOLEAN :
            \E kinds \in [1..3 -> {"none", "base", "virtual"}], overrides \in BOOLEAN :
                LET A == [RecordDecl(<<>>, <<>>) EXCEPT !.methods = <<Virtual_f>>]
                    B == RecordDecl(<<>>, fsB)
                    C == IF derivedC
                         THEN [RecordDecl(<<BaseSpecifier(1, TRUE)>>, <<>>) EXCEPT
                                  !.methods = <<Overrider({<<1, 1>>})>>,
                                  !.hasUserDeclaredCtorOrDtor = TRUE]
                         ELSE RecordDecl(<<>>, <<PlainField(IntTy)>>)
                    bs == [i \in 1..3 |-> BaseSpecifier(i, kinds[i] = "virtual")]
                    \* the functions of the bases of D that its f overrides
                    over == (IF kinds[1] # "none" THEN {<<1, 1>>} ELSE {})
                            \cup (IF kinds[3] # "none" /\ derivedC THEN {<<3, 1>>} ELSE {})
                    D == [RecordDecl(SelectSeq(bs, LAMBDA b : kinds[b.cls] # "none"),
                                     <<PlainField(CharTy)>>) EXCEPT
                             !.methods = <<Overrider(IF overrides THEN over ELSE {}), Virtual_g>>,
                             !.hasUserDeclaredCtorOrDtor = TRUE]
                IN ctx = c /\ decls = <<A, B, C, D>>

\* Microsoft hierarchies for the vtordisp computation: A declares f; B is a
\* root or derives from A, virtually or not, and may override f; C is a root
\* or derives from B; D takes each of them as no base, a base or a virtual
\* base, overrides every f it inherits through them and declares g
VtorDispUnit ==
    \E shapeB \in 1..5, kindC \in {"none", "base", "virtual"} :
        \E kinds \in [1..3 -> {"none", "base", "virtual"}], ctor \in BOOLEAN :
            LET A == [RecordDecl(<<>>, <<>>) EXCEPT !.methods = <<Virtual_f>>]
                bsB == CASE shapeB = 1 -> <<>>
                         [] shapeB \in {2, 3} -> <<BaseSpecifier(1, FALSE)>>
                         [] OTHER -> <<BaseSpecifier(1, TRUE)>>
                B == CASE shapeB = 1 -> [RecordDecl(bsB, <<>>) EXCEPT !.methods = <<Virtual_f>>]
                       [] shapeB = 3 -> [RecordDecl(bsB, <<>>) EXCEPT
                                            !.methods = <<Overrider({<<1, 1>>})>>]
                       [] shapeB = 5 -> [RecordDecl(bsB, <<>>) EXCEPT
                                            !.methods = <<Overrider({<<1, 1>>})>>,
                                            !.hasUserDeclaredCtorOrDtor = TRUE]
                       [] OTHER -> RecordDecl(bsB, <<>>)
                \* the final overriders of f in B and in C
                fOfB == IF shapeB \in {1, 3, 5} THEN {<<2, 1>>} ELSE {<<1, 1>>}
                C == RecordDecl(IF kindC = "none" THEN <<>>
                                ELSE <<BaseSpecifier(2, kindC = "virtual")>>, <<>>)
                fOfC == IF kindC = "none" THEN {} ELSE fOfB
                bs == [i \in 1..3 |-> BaseSpecifier(i, kinds[i] = "virtual")]
                over == (IF kinds[1] # "none" THEN {<<1, 1>>} ELSE {})
                        \cup (IF kinds[2] # "none" THEN fOfB ELSE {})
                        \cup (IF kinds[3] # "none" THEN fOfC ELSE {})
                D == [RecordDecl(SelectSeq(bs, LAMBDA b : kinds[b.cls] # "none"),
                                 <<PlainField(CharTy)>>) EXCEPT
                         !.methods = <<Overrider(over), Virtual_g>>,
                         !.hasUserDeclaredCtorOrDtor = ctor]
            IN ctx = Microsoft32 /\ decls = <<A, B, C, D>>

(***************************************************************************)
(* ASTContext::getASTRecordLayout and ASTContext::getObjCLayout            *)
(***************************************************************************)
isMsLayout == ctx.abi = "Microsoft"

\* a faulty choice of builder that never takes the Microsoft one
AlwaysItaniumBuilder(D, ext) == BuildItaniumASTRecordLayout(D, ext)

\* what getASTRecordLayout builds for D on a cache miss; ext is the answer
\* of the external source, if there is one
NewEntry(D, ext) ==
    IF isMsLayout /\ ~ctx.hasExternalSource THEN BuildMicrosoftASTRecordLayout(D)
    ELSE BuildItaniumASTRecordLayout(D, ext)

\* a call in progress: the declaration and whether an implementation was given
Frame(D, Impl) == [decl |-> D, impl |-> Impl]

\* The declarations whose layout a builder run for D asks for, in the order
\* of its first requests: the bases (the superclass), then the record types
\* of the members.  Whatever else a builder asks for was needed by one of
\* these and is cached by then.
Deps(D) ==
    (IF decls[D].super # 0 THEN <<decls[D].super>> ELSE <<>>)
    \o [i \in 1..Len(decls[D].bases) |-> decls[D].bases[i].cls]
    \o SelectSeq([i \in 1..Len(decls[D].fields) |->
                     getBaseElementRecord(decls[D].fields[i].type)],
                 LAMBDA r : r # 0)

Uncached(D) == {i \in 1..Len(Deps(D)) : ~hasLayout(Deps(D)[i])}

\* the entry a call with this frame looks up
Cached(f) == IF f.impl THEN objcCache[f.decl] ELSE cache[f.decl]

NoReturn == [decl |-> 0, impl |-> FALSE, fromCache |-> FALSE, layout |-> NoLayout]

\* A client calls getASTRecordLayout(D): a hit returns the entry, a miss
\* starts the builder.
GetASTRecordLayout(D) ==
    /\ stack = <<>>
    /\ isRecord(D)
    /\ IF hasLayout(D)
       THEN /\ returned' = [decl |-> D, impl |-> FALSE, fromCache |-> TRUE, layout |-> cache[D]]
            /\ UNCHANGED stack
       ELSE /\ stack' = <<Frame(D, FALSE)>>
            /\ UNCHANGED returned
    /\ UNCHANGED <<ctx, decls, cache, objcCache, built, diags, clients>>

\* A client calls getObjCLayout(D, Impl).  With an implementation that
\* synthesizes no ivar the call is getObjCLayout(D, 0).
GetObjCLayout(D, Impl) ==
    /\ stack = <<>>
    /\ ~isRecord(D)
    /\ LET f == IF Impl /\ objcCache[D].kind = "none" /\ decls[D].synth = 0
                THEN Frame(D, FALSE) ELSE Frame(D, Impl)
       IN IF Cached(f).kind # "none"
          THEN /\ returned' = [decl |-> D, impl |-> Impl, fromCache |-> TRUE, layout |-> Cached(f)]
               /\ UNCHANGED stack
          ELSE /\ stack' = <<f>>
               /\ UNCHANGED returned
    /\ UNCHANGED <<ctx, decls, cache, objcCache, built, diags, clients>>

\* The builder on top of the stack asks for a layout that is not cached:
\* getASTRecordLayout (getObjCLayout for the superclass) is entered again.
NestedGetLayout ==
    /\ stack # <<>>
    /\ LET D == stack[Len(stack)].decl
       IN /\ Uncached(D) # {}
          /\ stack' = Append(stack,
                 Frame(Deps(D)[CHOOSE i \in Uncached(D) : \A j \in Uncached(D) : i <= j],
                       FALSE))
    /\ UNCHANGED <<ctx, decls, cache, objcCache, built, returned, diags, clients>>

\* the bits a member occupies
getFieldSizeInBits(FD) == IF isBitField(FD) THEN FD.width ELSE getTypeInfo(FD.type)[1]

\* An external source reports the layout some compiler gave the record: the
\* members of a struct follow the bases and each other without overlap, the
\* members of a union are at offset zero, and the size is the end of the
\* last base or member rounded up to the alignment (the reported one, or
\* some power of two when none is reported).
isLayoutOf(D, a) ==
    LET fs == decls[D].fields
        End(i) == a.FieldOffsets[i] + getFieldSizeInBits(fs[i])
        NVBases == {i \in 1..Len(decls[D].bases) : ~decls[D].bases[i].virt}
        BaseOffset(i) == a.BaseOffsets[decls[D].bases[i].cls]
        BaseEnd(i) == BaseOffset(i) + cache[decls[D].bases[i].cls].NonVirtualSize
        Ends == {0} \cup {End(i) : i \in 1..Len(fs)} \cup {toBits(BaseEnd(i)) : i \in NVBases}
        DataEnd == CHOOSE x \in Ends : \A y \in Ends : y <= x
    IN /\ \E A \in (IF a.Align = 0 THEN {8, 16, 32, 64} ELSE {a.Align}) :
             a.Size = RoundUpToAlignment(DataEnd, A)
       /\ \A i \in 1..Len(fs) :
             IF decls[D].isUnion THEN a.FieldOffsets[i] = 0
             ELSE /\ \A j \in 1..(i - 1) : End(j) <= a.FieldOffsets[i]
                  /\ \A j \in NVBases : toBits(BaseEnd(j)) <= a.FieldOffsets[i]
       /\ \A i, j \in NVBases : j < i => BaseEnd(j) <= BaseOffset(i)

\* the answers ExternalASTSource::layoutRecordType may give for D
ExternalAnswers(D) ==
    IF ~ctx.hasExternalSource \/ ~isRecord(D) THEN {NoExternalLayout}
    ELSE {NoExternalLayout} \cup
         {a \in {[valid |-> TRUE, Size |-> s, Align |-> al, FieldOffsets |-> fo,
                  BaseOffsets |-> bo, VirtualBaseOffsets |-> EmptyMap] :
                     s \in ExternalSizes, al \in ExternalAligns,
                     fo \in [1..Len(decls[D].fields) -> ExternalFieldOffsets],
                     bo \in [{decls[D].bases[i].cls : i \in {j \in 1..Len(decls[D].bases) :
                                                             ~decls[D].bases[j].virt}}
                               -> ExternalBaseOffsets]} :
             isLayoutOf(D, a)}

\* The builder on top of the stack runs to its end; the new entry is stored
\* and returned to the caller.
BuildLayout ==
    /\ stack # <<>>
    /\ LET f == stack[Len(stack)]
           D == f.decl
       IN /\ Uncached(D) = {}
          /\ \E ext \in ExternalAnswers(D) :
                \E r \in {IF isRecord(D) THEN NewEntry(D, ext) ELSE BuildObjCLayout(D)} :
                   /\ IF f.impl
                      THEN /\ objcCache' = [objcCache EXCEPT ![D] = r.layout]
                           /\ UNCHANGED cache
                      ELSE /\ cache' = [cache EXCEPT ![D] = r.layout]
                           /\ UNCHANGED objcCache
                   /\ diags' = diags \cup {[decl |-> D, id |-> d.id, field |-> d.field] :
                                              d \in r.diags}
                   /\ returned' = IF Len(stack) = 1
                                  THEN [decl |-> D, impl |-> f.impl, fromCache |-> FALSE,
                                        layout |-> r.layout]
                                  ELSE returned
          /\ built' = [built EXCEPT ![D][IF f.impl THEN 2 ELSE 1] = @ + 1]
          /\ stack' = SubSeq(stack, 1, Len(stack) - 1)
    /\ UNCHANGED <<ctx, decls, clients>>

(***************************************************************************)
(* The key-function resolver                                               *)
(***************************************************************************)
\* TargetCXXABI::hasKeyFunctions: the Itanium family has them
hasKeyFunctions == ctx.abi # "Microsoft"

\* TargetCXXABI::canKeyFunctionBeInline: the ARM C++ ABI forbids it
canKeyFunctionBeInline == ctx.abi # "GenericARM"

\* a method of a class that may be asked for its key function; definition
\* is "none", "outofline" or "inline" (an out-of-line definition marked
\* inline), the body hasBody finds
KeyMethod(isVirtual, isPure, isImplicit, isInlineSpecified, hasInlineBody, isUserProvided, definition) ==
    [isVirtual |-> isVirtual, isDtor |-> FALSE, overridden |-> {},
     isPure |-> isPure, isImplicit |-> isImplicit,
     isInlineSpecified |-> isInlineSpecified, hasInlineBody |-> hasInlineBody,
     isUserProvided |-> isUserProvided, definition |-> definition]

\* a class with its linkage and its template specialization kind
KeyClass(bs, ms, visible, tsk) ==
    [externallyVisible |-> visible, TSK |-> tsk]
    @@ [RecordDecl(bs, <<>>) EXCEPT !.methods = ms]

KeyFunctionIgnoringABI(RD) ==
    LET ms == decls[RD].methods
        RECURSIVE Loop(_)
        Loop(I) ==
            IF I > Len(ms) THEN 0
            ELSE LET MD == ms[I]
                 IN IF ~MD.isVirtual THEN Loop(I + 1)
                    ELSE IF MD.isPure THEN Loop(I + 1)
                    ELSE IF MD.isImplicit THEN Loop(I + 1)
                    ELSE IF MD.isInlineSpecified THEN Loop(I + 1)
                    ELSE IF MD.hasInlineBody THEN Loop(I + 1)
                    ELSE IF ~MD.isUserProvided THEN Loop(I + 1)
                    ELSE I
    IN IF ~isPolymorphic(RD) THEN 0
       ELSE IF ~decls[RD].externallyVisible THEN 0
       ELSE IF decls[RD].TSK \in {"TSK_ImplicitInstantiation",
                                  "TSK_ExplicitInstantiationDefinition"} THEN 0
       ELSE Loop(1)

\* computeKeyFunction: the number of the key function among the methods of
\* RD, 0 for none
computeKeyFunction(RD) ==
    LET ms == decls[RD].methods
        allowInlineFunctions == canKeyFunctionBeInline
        RECURSIVE Loop(_)
        Loop(I) ==
            IF I > Len(ms) THEN 0
            ELSE LET MD == ms[I]
                 IN IF ~MD.isVirtual THEN Loop(I + 1)
                    ELSE IF MD.isPure THEN Loop(I + 1)
                    ELSE IF MD.isImplicit THEN Loop(I + 1)
                    ELSE IF MD.isInlineSpecified THEN Loop(I + 1)
                    ELSE IF MD.hasInlineBody THEN Loop(I + 1)
                    ELSE IF ~MD.isUserProvided THEN Loop(I + 1)
                    ELSE IF ~allowInlineFunctions /\ MD.definition = "inline"
                         THEN Loop(I + 1)
                    ELSE I
    IN IF ~isPolymorphic(RD) THEN 0
       ELSE IF ~decls[RD].externallyVisible THEN 0
       ELSE IF decls[RD].TSK \in {"TSK_ImplicitInstantiation",
                                  "TSK_ExplicitInstantiationDefinition"} THEN 0
       ELSE Loop(1)

NoKeyCall == [decl |-> 0, computed |-> FALSE, result |-> 0]

\* ASTContext::getCurrentKeyFunction(RD): the cached entry, computed on the
\* first call and whenever the entry is null
GetCurrentKeyFunction(RD) ==
    /\ isCXXRecord(RD)
    /\ IF ~hasKeyFunctions
       THEN /\ keyCall' = [decl |-> RD, computed |-> FALSE, result |-> 0]
            /\ UNCHANGED KeyFunctions
       ELSE LET Entry == IF KeyFunctions[RD] = 0 THEN computeKeyFunction(RD)
                         ELSE KeyFunctions[RD]
            IN /\ KeyFunctions' = [KeyFunctions EXCEPT ![RD] = Entry]
               /\ keyCall' = [decl |-> RD, computed |-> KeyFunctions[RD] = 0,
                              result |-> Entry]
    /\ UNCHANGED <<ctx, decls, cache, objcCache, stack, built, returned, diags,
                   offsetOf, trial, vtor>>

\* ASTContext::setNonKeyFunction(Method), Method the I-th method of RD: the
\* cached entry is dropped when it is this method
SetNonKeyFunction(RD, I) ==
    /\ isCXXRecord(RD)
    /\ I \in 1..Len(decls[RD].methods)
    /\ KeyFunctions' = IF KeyFunctions[RD] = I
                       THEN [KeyFunctions EXCEPT ![RD] = 0]
                       ELSE KeyFunctions
    /\ UNCHANGED <<ctx, decls, cache, objcCache, stack, built, returned, diags,
                   keyCall, offsetOf, trial, vtor>>

MaxMethods == 2

\* struct Base { ... }; struct RD [: Base] { the methods }; on a generic
\* Itanium target, on one that follows the ARM C++ ABI and on a Microsoft
\* one.  The methods: one that qualifies with its definition out of line,
\* one not defined yet, and one for each way of not qualifying.
KeyUnit ==
    LET GenericARM == [ItaniumApcs EXCEPT !.abi = "GenericARM", !.CPlusPlus = TRUE]
        KeyMethods ==
            {KeyMethod(TRUE, FALSE, FALSE, FALSE, FALSE, TRUE, "outofline"),
             KeyMethod(TRUE, FALSE, FALSE, FALSE, FALSE, TRUE, "none"),
             KeyMethod(FALSE, FALSE, FALSE, FALSE, FALSE, TRUE, "outofline"),
             KeyMethod(TRUE, TRUE, FALSE, FALSE, FALSE, TRUE, "none"),
             KeyMethod(TRUE, FALSE, TRUE, TRUE, FALSE, FALSE, "none"),
             KeyMethod(TRUE, FALSE, FALSE, TRUE, FALSE, TRUE, "none"),
             KeyMethod(TRUE, FALSE, FALSE, FALSE, TRUE, TRUE, "outofline"),
             KeyMethod(TRUE, FALSE, FALSE, FALSE, FALSE, FALSE, "none"),
             KeyMethod(TRUE, FALSE, FALSE, FALSE, FALSE, TRUE, "inline")}
        TemplateSpecializationKinds ==
            {"TSK_Undeclared", "TSK_ImplicitInstantiation", "TSK_ExplicitSpecialization",
             "TSK_ExplicitInstantiationDeclaration", "TSK_ExplicitInstantiationDefinition"}
    IN /\ ctx \in {Itanium64, GenericARM, Microsoft32}
       /\ \E bm \in {<<>>, <<KeyMethod(TRUE, FALSE, FALSE, FALSE, TRUE, TRUE, "outofline")>>},
             bs \in {<<>>, <<BaseSpecifier(1, FALSE)>>},
             n \in 0..MaxMethods,
             v \in BOOLEAN, tsk \in TemplateSpecializationKinds :
             \E ms \in [1..n -> KeyMethods] :
                decls = <<KeyClass(<<>>, bm, TRUE, "TSK_Undeclared"),
                          KeyClass(bs, ms, v, tsk)>>

(***************************************************************************)
(* tools/libclang/CXType.cpp: clang_Type_getOffsetOf                       *)
(***************************************************************************)
\* enum CXTypeLayoutError
CXTypeLayoutError ==
    [Invalid |-> 0 - 1, Incomplete |-> 0 - 2, Dependent |-> 0 - 3,
     NotConstantSize |-> 0 - 4, InvalidFieldName |-> 0 - 5]

\* a template type parameter
DependentType ==
    [k |-> "dependent", ek |-> "none", size |-> 0, align |-> 0, rec |-> 0, n |-> 0]

\* a member with its name; an anonymous struct member has the name ""
NamedField(name, T) == [name |-> name] @@ PlainField(T)

\* a record as libclang sees it: whether the declaration is invalid, whether
\* it has a complete definition, whether it is a dependent type, and the
\* names of the members that are not fields (a method name is there once
\* for each overload)
LibclangRecord(fs, invalid, defined, dependent, members) ==
    [invalid |-> invalid, defined |-> defined, dependent |-> dependent,
     members |-> members]
    @@ RecordDecl(<<>>, fs)

\* Type::isIncompleteType
isIncompleteType(T) ==
    \/ T.k = "incarray"
    \/ T.k = "record" /\ ~decls[T.rec].defined
    \/ T.k = "array" /\ T.ek = "record" /\ ~decls[T.rec].defined

\* Type::isDependentType
isDependentType(T) ==
    \/ T.k = "dependent"
    \/ T.k \in {"record", "array"} /\ T.rec # 0 /\ decls[T.rec].dependent

ValidateDirectFieldsOnly(RD) ==
    LET fs == decls[RD].fields
        RECURSIVE Loop(_)
        Loop(I) ==
            IF I > Len(fs) THEN 0
            ELSE IF isIncompleteType(fs[I].type) THEN CXTypeLayoutError.Incomplete
            ELSE IF isDependentType(fs[I].type) THEN CXTypeLayoutError.Dependent
            ELSE Loop(I + 1)
    IN Loop(1)

RECURSIVE visitRecordForValidation(_)
\* visitRecordForValidation: the first error found in the fields of RD and,
\* through the fields of record type, in theirs; 0 when there is none
visitRecordForValidation(RD) ==
    LET fs == decls[RD].fields
        RECURSIVE Loop(_)
        Loop(I) ==
            IF I > Len(fs) THEN 0
            ELSE LET FQT == fs[I].type
                 IN IF isIncompleteType(FQT) THEN CXTypeLayoutError.Incomplete
                    ELSE IF isDependentType(FQT) THEN CXTypeLayoutError.Dependent
                    ELSE IF FQT.k = "record"
                         THEN LET ret == visitRecordForValidation(FQT.rec)
                              IN IF ret < 0 THEN ret ELSE Loop(I + 1)
                    ELSE Loop(I + 1)
    IN Loop(1)

\* the null pointer passed for a field name
NullName == "(null)"

\* RecordDecl::lookup(FieldName): the fields of that name, the indirect
\* fields Sema declared for the members of an anonymous struct member, each
\* with its chain of <<record, field number>>, and the other members
lookup(RD, S) ==
    LET fs == decls[RD].fields
        Inner(i) == decls[fs[i].type.rec].fields
        Fields == SelectSeq([i \in 1..Len(fs) |-> [kind |-> "FieldDecl", chain |-> <<<<RD, i>>>>]],
                            LAMBDA r : fs[r.chain[1][2]].name = S)
        Anon == {i \in 1..Len(fs) : fs[i].name = "" /\ fs[i].type.k = "record"}
        Indirect(i) == SelectSeq([j \in 1..Len(Inner(i)) |->
                                    [kind |-> "IndirectFieldDecl",
                                     chain |-> <<<<RD, i>>, <<fs[i].type.rec, j>>>>]],
                                 LAMBDA r : Inner(i)[r.chain[2][2]].name = S)
        RECURSIVE Indirects(_)
        Indirects(i) == IF i > Len(fs) THEN <<>>
                        ELSE (IF i \in Anon THEN Indirect(i) ELSE <<>>) \o Indirects(i + 1)
        Others == SelectSeq([i \in 1..Len(decls[RD].members) |->
                                [kind |-> "CXXMethodDecl", chain |-> <<<<RD, i>>>>]],
                            LAMBDA r : decls[RD].members[r.chain[1][2]] = S)
    IN Fields \o Indirects(1) \o Others

\* ASTContext::getFieldOffset(VD): the offset of a field in its parent, the
\* sum along the chain for an indirect field
getFieldOffset(VD) ==
    LET RECURSIVE Sum(_)
        Sum(CI) ==
            IF CI > Len(VD.chain) THEN 0
            ELSE cache[VD.chain[CI][1]].FieldOffsets[VD.chain[CI][2]] + Sum(CI + 1)
    IN Sum(1)

NoOffsetOf ==
    [pc |-> "idle", PT |-> [kind |-> "None", decl |-> 0], S |-> NullName,
     VD |-> [kind |-> "None", chain |-> <<>>], called |-> FALSE, result |-> 0]

\* clang_Type_getOffsetOf(PT, S) up to its return with an error code or to
\* its call of Ctx.getFieldOffset, which asks for the layout of the parent
clang_Type_getOffsetOf(PT, S) ==
    /\ stack = <<>>
    /\ offsetOf.pc = "idle"
    /\ LET RD == PT.decl
           Res == lookup(RD, S)
           Error ==
               IF PT.kind = "Builtin" THEN CXTypeLayoutError.Invalid
               ELSE IF PT.kind # "Record" \/ decls[RD].invalid THEN CXTypeLayoutError.Invalid
               ELSE IF ~decls[RD].defined THEN CXTypeLayoutError.Incomplete
               ELSE IF decls[RD].invalid THEN CXTypeLayoutError.Invalid
               ELSE IF isIncompleteType(RecordType(RD)) THEN CXTypeLayoutError.Incomplete
               ELSE IF isDependentType(RecordType(RD)) THEN CXTypeLayoutError.Dependent
               ELSE IF visitRecordForValidation(RD) < 0 THEN visitRecordForValidation(RD)
               ELSE IF S = NullName THEN CXTypeLayoutError.InvalidFieldName
               ELSE IF Len(Res) # 1 THEN CXTypeLayoutError.InvalidFieldName
               ELSE IF Res[1].kind \in {"FieldDecl", "IndirectFieldDecl"} THEN 0
               ELSE CXTypeLayoutError.InvalidFieldName
       IN IF Error < 0
          THEN /\ offsetOf' = [pc |-> "idle", PT |-> PT, S |-> S, VD |-> NoOffsetOf.VD,
                               called |-> FALSE, result |-> Error]
               /\ UNCHANGED stack
          ELSE /\ offsetOf' = [pc |-> "getFieldOffset", PT |-> PT, S |-> S, VD |-> Res[1],
                               called |-> TRUE, result |-> 0]
               /\ stack' = IF hasLayout(RD) THEN <<>> ELSE <<Frame(RD, FALSE)>>
    /\ UNCHANGED <<ctx, decls, cache, objcCache, built, returned, diags,
                   KeyFunctions, keyCall, trial, vtor>>

\* Ctx.getFieldOffset returns: the layout of the parent is there
ReturnFieldOffset ==
    /\ offsetOf.pc = "getFieldOffset"
    /\ stack = <<>>
    /\ offsetOf' = [offsetOf EXCEPT !.pc = "idle", !.result = getFieldOffset(offsetOf.VD)]
    /\ UNCHANGED <<ctx, decls, cache, objcCache, stack, built, returned, diags,
                   KeyFunctions, keyCall, trial, vtor>>

\* struct Leaf ...; struct Inner { char c; [Leaf l; | Leaf &l;] };
\* struct Outer { int x; Inner i; | struct { ... }; void f(); void g(); void g(int); };
\* Leaf is complete, only declared, invalid, a template pattern, or ends in
\* a flexible array member.  A record with a member of incomplete record
\* type is invalid, one with a member of dependent type is dependent, and
\* no valid record has a member whose type is an invalid record.
OffsetOfUnit ==
    LET Leaves ==
            {LibclangRecord(<<NamedField("x", IntTy)>>, FALSE, TRUE, FALSE, <<>>),
             LibclangRecord(<<>>, FALSE, FALSE, FALSE, <<>>),
             LibclangRecord(<<NamedField("x", IntTy)>>, TRUE, TRUE, FALSE, <<>>),
             LibclangRecord(<<NamedField("x", DependentType)>>, FALSE, TRUE, TRUE, <<>>),
             LibclangRecord(<<NamedField("n", IntTy),
                              NamedField("x", IncompleteArrayType(32, 32))>>,
                            FALSE, TRUE, FALSE, <<>>)}
        Inners(Leaf) ==
            {LibclangRecord(<<NamedField("c", CharTy)>>, FALSE, TRUE, FALSE, <<>>),
             LibclangRecord(<<NamedField("c", CharTy), NamedField("l", ReferenceType)>>,
                            FALSE, TRUE, Leaf.dependent, <<>>)}
            \cup (IF Leaf.invalid THEN {}
                  ELSE {LibclangRecord(<<NamedField("c", CharTy), NamedField("l", RecordType(1))>>,
                                       ~Leaf.defined, TRUE, Leaf.dependent, <<>>)})
        Outers(Inner) ==
            {LibclangRecord(<<NamedField("x", IntTy), NamedField(name, RecordType(2))>>,
                            FALSE, TRUE, Inner.dependent, <<"f", "g", "g">>) :
                name \in {"i", ""}}
    IN /\ ctx \in {Itanium64, Microsoft32}
       /\ \E Leaf \in Leaves : \E Inner \in Inners(Leaf) : \E Outer \in Outers(Inner) :
             decls = <<Leaf, Inner, Outer>>

(***************************************************************************)
(* The trial-offset loops of LayoutBase and LayoutField, one iteration of  *)
(* the loop per step                                                       *)
(***************************************************************************)
NoTrial ==
    [pc |-> "idle", Class |-> 0,
     esm |-> [Class |-> 0, EmptyClassOffsets |-> {}, MaxEmptyClassOffset |-> 0,
              SizeOfLargestEmptySubobject |-> 0, Calls |-> <<>>],
     g |-> <<>>, Info |-> 0, D |-> PlainField(CharTy),
     Offset |-> 0, Align |-> 1, steps |-> 0]

\* the offsets an empty subobject may have been recorded at before the loop
MaxEntryOffset == 2

\* the number of empty subobjects recorded before the loop
MaxEntries == 2

\* the trial offsets are followed up to this one
MaxTrialOffset == 8

\* the states the map of RD may be in when a loop is entered: what
\* AddSubobjectAtOffset made of the new map, called for some empty classes
\* at some offsets
MapStates(RD) ==
    LET EmptyClasses == {C \in 1..Len(decls) : hasLayout(C) /\ isEmpty(C)}
        All == (0..MaxEntryOffset) \X EmptyClasses
        RECURSIVE AddAll(_)
        AddAll(S) ==
            IF S = {} THEN EmptySubobjectMap(RD)
            ELSE LET e == CHOOSE x \in S : TRUE
                 IN AddSubobjectAtOffset(AddAll(S \ {e}), e[2], e[1])
    IN {AddAll(E) : E \in {X \in SUBSET All : Cardinality(X) <= MaxEntries}}

\* The builder of RD, with the layouts it needs in the cache, reaches the
\* loop of LayoutBase for the non-virtual base number I: the map is in some
\* state and Offset is the data size rounded up to BaseAlign
EnterBaseLoop(RD, I, k) ==
    /\ trial.pc = "idle"
    /\ stack = <<>>
    /\ isCXXRecord(RD) /\ ~isMsLayout /\ ~decls[RD].isUnion
    /\ ~hasLayout(RD) /\ Uncached(RD) = {}
    /\ I \in 1..Len(decls[RD].bases) /\ ~decls[RD].bases[I].virt
    /\ \E esm \in MapStates(RD) :
          LET b == ComputeBaseSubobjectInfo(RecordLayoutBuilder(TRUE, esm), RD, 1)
              Base == decls[RD].bases[I].cls
              BaseAlign == cache[Base].NonVirtualAlignment
          IN trial' = [pc |-> "loop", Class |-> RD, esm |-> esm, g |-> b.g,
                       Info |-> MapLookup(b.NonVirtualBaseInfo, Base),
                       D |-> NoTrial.D, Offset |-> k * BaseAlign, Align |-> BaseAlign,
                       steps |-> 0]
    /\ UNCHANGED <<ctx, decls, cache, objcCache, stack, built, returned, diags,
                   KeyFunctions, keyCall, offsetOf, vtor>>

\* LayoutField reaches its loop for the member number I of RD, which is no
\* bit-field: FieldOffset is the data size rounded up to FieldAlign
EnterFieldLoop(RD, I, k) ==
    /\ trial.pc = "idle"
    /\ stack = <<>>
    /\ isCXXRecord(RD) /\ ~isMsLayout /\ ~decls[RD].isUnion
    /\ ~hasLayout(RD) /\ Uncached(RD) = {}
    /\ I \in 1..Len(decls[RD].fields) /\ ~isBitField(decls[RD].fields[I])
    /\ \E esm \in MapStates(RD) :
          LET D == decls[RD].fields[I]
              FieldAlign == toCharUnitsFromBits(getTypeInfo(D.type)[2])
          IN trial' = [pc |-> "loop", Class |-> RD, esm |-> esm, g |-> <<>>, Info |-> 0,
                       D |-> D, Offset |-> k * FieldAlign, Align |-> FieldAlign,
                       steps |-> 0]
    /\ UNCHANGED <<ctx, decls, cache, objcCache, stack, built, returned, diags,
                   KeyFunctions, keyCall, offsetOf, vtor>>

\* the condition of the loop: <<allowed, the map afterwards>>
CanPlaceAtTrialOffset ==
    IF trial.Info # 0
    THEN CanPlaceBaseAtOffset(trial.esm, trial.g, trial.Info, trial.Offset)
    ELSE CanPlaceFieldAtOffset(trial.esm, trial.D, trial.Offset)

RetrySameOffset ==
    /\ trial.pc = "loop"
    /\ ~CanPlaceAtTrialOffset[1]
    /\ UNCHANGED vars

\* the body of the loop: Offset += BaseAlign, FieldOffset += FieldAlign
BumpTrialOffset ==
    /\ trial.pc = "loop"
    /\ ~CanPlaceAtTrialOffset[1]
    /\ trial.Offset + trial.Align <= MaxTrialOffset
    /\ trial' = [trial EXCEPT !.Offset = @ + trial.Align, !.steps = @ + 1]
    /\ UNCHANGED <<ctx, decls, cache, objcCache, stack, built, returned, diags,
                   KeyFunctions, keyCall, offsetOf, vtor>>

\* the loop is left: the offset is accepted and the map records the subobjects
AcceptTrialOffset ==
    /\ trial.pc = "loop"
    /\ CanPlaceAtTrialOffset[1]
    /\ trial' = [trial EXCEPT !.pc = "placed", !.esm = CanPlaceAtTrialOffset[2]]
    /\ UNCHANGED <<ctx, decls, cache, objcCache, stack, built, returned, diags,
                   KeyFunctions, keyCall, offsetOf, vtor>>

\* struct Empty {}; struct E2 ...; struct Class : [Empty,] [E2] { ... };
\* E2 is an empty class derived from Empty, a class with a member of type
\* Empty, or a class with a char
TrialUnit ==
    /\ ctx = Itanium64
    /\ \E E2 \in {RecordDecl(<<BaseSpecifier(1, FALSE)>>, <<>>),
                  RecordDecl(<<>>, <<PlainField(RecordType(1))>>),
                  RecordDecl(<<>>, <<PlainField(CharTy)>>)},
          bs \in {<<BaseSpecifier(1, FALSE)>>, <<BaseSpecifier(2, FALSE)>>,
                  <<BaseSpecifier(1, FALSE), BaseSpecifier(2, FALSE)>>},
          fs \in {<<>>, <<PlainField(RecordType(1))>>, <<PlainField(RecordType(2))>>,
                  <<PlainField(RecordArrayType(1, 2))>>, <<PlainField(IntTy)>>} :
          decls = <<Empty, E2, RecordDecl(bs, fs)>>

(***************************************************************************)
(* MicrosoftRecordLayoutBuilder::computeVtorDispSet, one loop iteration    *)
(* per step                                                                *)
(***************************************************************************)
NoVtorDisp == [pc |-> "idle", RD |-> 0, HasVtordispSet |-> {}, Work |-> {}, ToCheck |-> {}]

\* layoutVirtualBases of the builder of RD, with the layouts it needs in the
\* cache, calls computeVtorDispSet: the loop over the direct bases collects
\* the virtual bases that have a vtordisp in a base's layout, and a class
\* with a user-declared constructor or destructor seeds the work set
EnterComputeVtorDispSet(RD) ==
    /\ vtor.pc = "idle"
    /\ stack = <<>>
    /\ isCXXRecord(RD) /\ isMsLayout /\ ~ctx.hasExternalSource
    /\ ~hasLayout(RD) /\ Uncached(RD) = {}
    /\ getVBases(RD) # <<>>
    /\ vtor' = [pc |-> "work", RD |-> RD,
                HasVtordispSet |-> UNION {cache[decls[RD].bases[i].cls].VtorDisps :
                                          i \in 1..Len(decls[RD].bases)},
                Work |-> IF decls[RD].hasUserDeclaredCtorOrDtor
                         THEN VtorDispWorkSeed(RD) ELSE {},
                ToCheck |-> {}]
    /\ UNCHANGED <<ctx, decls, cache, objcCache, stack, built, returned, diags,
                   KeyFunctions, keyCall, offsetOf, trial>>

\* one iteration of the work loop: *Work.begin() is any element of the
\* SmallPtrSet
VtorDispWorkStep ==
    /\ vtor.pc = "work" /\ vtor.Work # {}
    /\ \E MD \in vtor.Work :
          LET Over == decls[MD[1]].methods[MD[2]].overridden
          IN vtor' = [vtor EXCEPT
                         !.HasVtordispSet = IF Over = {} THEN @ \cup {MD[1]} ELSE @,
                         !.Work = (@ \cup Over) \ {MD}]
    /\ UNCHANGED <<ctx, decls, cache, objcCache, stack, built, returned, diags,
                   KeyFunctions, keyCall, offsetOf, trial>>

\* the work set is empty: the re-check of the virtual bases begins
LeaveWorkLoop ==
    /\ vtor.pc = "work" /\ vtor.Work = {}
    /\ vtor' = [vtor EXCEPT !.pc = "recheck", !.ToCheck = SeqToSet(getVBases(vtor.RD))]
    /\ UNCHANGED <<ctx, decls, cache, objcCache, stack, built, returned, diags,
                   KeyFunctions, keyCall, offsetOf, trial>>

\* one iteration of the re-check loop, for a virtual base not visited yet;
\* the virtual bases are taken in any order
RecheckVBase ==
    /\ vtor.pc = "recheck"
    /\ \E BaseDecl \in vtor.ToCheck :
          vtor' = [vtor EXCEPT
                      !.HasVtordispSet =
                          IF /\ BaseDecl \notin vtor.HasVtordispSet
                             /\ RequiresVtordisp(vtor.HasVtordispSet, BaseDecl)
                          THEN @ \cup {BaseDecl} ELSE @,
                      !.ToCheck = @ \ {BaseDecl}]
    /\ UNCHANGED <<ctx, decls, cache, objcCache, stack, built, returned, diags,
                   KeyFunctions, keyCall, offsetOf, trial>>

\* every virtual base was visited: computeVtorDispSet returns HasVtordispSet
ReturnVtorDispSet ==
    /\ vtor.pc = "recheck" /\ vtor.ToCheck = {}
    /\ vtor' = [vtor EXCEPT !.pc = "done"]
    /\ UNCHANGED <<ctx, decls, cache, objcCache, stack, built, returned, diags,
                   KeyFunctions, keyCall, offsetOf, trial>>

(***************************************************************************)
(* The specification                                                       *)
(***************************************************************************)
\* nothing is laid out, resolved or asked for yet
Idle ==
    /\ cache = [D \in 1..Len(decls) |-> NoLayout]
    /\ objcCache = [D \in 1..Len(decls) |-> NoLayout]
    /\ stack = <<>>
    /\ built = [D \in 1..Len(decls) |-> <<0, 0>>]
    /\ returned = NoReturn
    /\ diags = {}
    /\ KeyFunctions = [D \in 1..Len(decls) |-> 0]
    /\ keyCall = NoKeyCall
    /\ offsetOf = NoOffsetOf
    /\ trial = NoTrial
    /\ vtor = NoVtorDisp

Init ==
    /\ \/ FieldUnit \/ HierarchyUnit \/ EmptyMemberUnit \/ ObjCUnit \/ ExternalUnit
       \/ OverriderUnit
    /\ Idle

Next ==
    \/ \E D \in 1..Len(decls) : GetASTRecordLayout(D)
    \/ \E D \in 1..Len(decls), Impl \in BOOLEAN : GetObjCLayout(D, Impl)
    \/ NestedGetLayout
    \/ BuildLayout

Spec == Init /\ [][Next]_vars

\* the key-function resolver on its own
KeyInit == KeyUnit /\ Idle

KeyNext ==
    \/ \E RD \in 1..Len(decls) : GetCurrentKeyFunction(RD)
    \/ \E RD \in 1..Len(decls), I \in 1..MaxMethods : SetNonKeyFunction(RD, I)

KeySpec == KeyInit /\ [][KeyNext]_vars

\* libclang asking for the offset of a field by name
OffsetOfInit == OffsetOfUnit /\ Idle

OffsetOfNext ==
    \/ \E PT \in [kind : {"Record"}, decl : 1..Len(decls)]
                 \cup {[kind |-> k, decl |-> 0] : k \in {"Builtin", "Enum"}},
          S \in {"x", "c", "l", "i", "f", "g", "q", NullName} :
          clang_Type_getOffsetOf(PT, S)
    \/ ReturnFieldOffset
    \/ NestedGetLayout
    \/ BuildLayout

OffsetOfSpec == OffsetOfInit /\ [][OffsetOfNext]_vars

\* the builder entering its trial-offset loops; a loop, once entered, runs
\* on: nothing else happens in between and each iteration is taken
TrialInit == TrialUnit /\ Idle

TrialNext ==
    \/ trial.pc # "loop" /\ \E D \in 1..Len(decls) : GetASTRecordLayout(D)
    \/ NestedGetLayout
    \/ BuildLayout
    \/ \E RD \in 1..Len(decls), I \in 1..MaxBases, k \in 0..1 : EnterBaseLoop(RD, I, k)
    \/ \E RD \in 1..Len(decls), I \in 1..MaxFields, k \in 0..1 : EnterFieldLoop(RD, I, k)
    \/ BumpTrialOffset
    \/ AcceptTrialOffset

TrialSpec ==
    TrialInit /\ [][TrialNext]_vars /\ WF_vars(BumpTrialOffset) /\ WF_vars(AcceptTrialOffset)

\* the layout engine on hierarchies of four classes
DiamondInit == DiamondUnit /\ Idle

DiamondNext ==
    \/ \E D \in 1..Len(decls) : GetASTRecordLayout(D)
    \/ NestedGetLayout
    \/ BuildLayout

DiamondSpec == DiamondInit /\ [][DiamondNext]_vars

\* computeVtorDispSet, stepwise, on the classes whose bases are laid out; the
\* loops of the function run to their end once entered
VtorDispInit == VtorDispUnit /\ Idle

VtorDispNext ==
    \/ vtor.pc = "idle" /\ \E D \in 1..Len(decls) : GetASTRecordLayout(D)
    \/ NestedGetLayout
    \/ BuildLayout
    \/ \E RD \in 1..Len(decls) : EnterComputeVtorDispSet(RD)
    \/ VtorDispWorkStep
    \/ LeaveWorkLoop
    \/ RecheckVBase
    \/ ReturnVtorDispSet

VtorDispSpec ==
    VtorDispInit /\ [][VtorDispNext]_vars /\ WF_vars(VtorDispWorkStep)
        /\ WF_vars(LeaveWorkLoop) /\ WF_vars(RecheckVBase) /\ WF_vars(ReturnVtorDispSet)

(***************************************************************************)
(* Properties of the completed layouts                                     *)
(***************************************************************************)
Keys == 1..Len(decls)

\* the records whose layout is in the cache
Built(D) == decls[D].kind = "record" /\ cache[D].kind = "layout"

\* every layout stored in ASTRecordLayouts or ObjCLayouts
StoredLayouts ==
    {cache[D] : D \in {E \in Keys : cache[E].kind = "layout"}}
    \cup {objcCache[D] : D \in {E \in Keys : objcCache[E].kind = "layout"}}

NVBasesOf(D) ==
    {decls[D].bases[i].cls : i \in {j \in 1..Len(decls[D].bases) : ~decls[D].bases[j].virt}}

VBasesOf(D) == {getVBases(D)[i] : i \in 1..Len(getVBases(D))}

\* the size is a multiple of the alignment
SizeIsAligned(L) == (L.Size \div L.Alignment) * L.Alignment = L.Size

\* a class the Microsoft builder lays out without rounding the size after
\* the virtual bases: it has virtual bases and no required alignment
UnroundedAfterVBases(D) ==
    /\ cache[D].builder = "Microsoft"
    /\ cache[D].RequiredAlignment = 0
    /\ DOMAIN cache[D].VBaseOffsets # {}

RECURSIVE NonVirtualSubobjects(_, _, _)
\* the subobjects in the non-virtual part of a D at Offset (in chars), with
\* the complete objects that are its members: <<path, class, offset>>
NonVirtualSubobjects(D, Offset, path) ==
    LET L == cache[D]
        NVBases == {i \in 1..Len(decls[D].bases) : ~decls[D].bases[i].virt}
        RecFields == {i \in 1..Len(decls[D].fields) : decls[D].fields[i].type.rec # 0}
        Member(i) ==
            LET T == decls[D].fields[i].type
                n == IF T.k = "array" THEN T.n ELSE 1
                At(e) == Offset + (L.FieldOffsets[i] \div 8) + e * cache[T.rec].Size
            IN UNION {NonVirtualSubobjects(T.rec, At(e), path \o <<2, i, e>>)
                      \cup UNION {NonVirtualSubobjects(V, At(e) + cache[T.rec].VBaseOffsets[V],
                                                      path \o <<2, i, e, 3, V, 0>>) :
                                     V \in VBasesOf(T.rec)} :
                         e \in 0..(n - 1)}
    IN {<<path, D, Offset>>}
       \cup UNION {NonVirtualSubobjects(decls[D].bases[i].cls,
                                        Offset + L.BaseOffsets[decls[D].bases[i].cls],
                                        path \o <<1, i, 0>>) : i \in NVBases}
       \cup UNION {Member(i) : i \in RecFields}

\* every subobject of a complete object of class D
Subobjects(D) ==
    NonVirtualSubobjects(D, 0, <<>>)
    \cup UNION {NonVirtualSubobjects(V, cache[D].VBaseOffsets[V], <<3, V, 0>>) :
                   V \in VBasesOf(D)}

NoEmptyOverlap(D) ==
    \A s, t \in Subobjects(D) : (s # t /\ s[2] = t[2] /\ s[3] = t[3]) => ~isEmpty(s[2])

RECURSIVE ContainsUnion(_)
\* D is a union or has a base or member that is or contains one
ContainsUnion(D) ==
    \/ decls[D].isUnion
    \/ \E i \in 1..Len(decls[D].bases) : ContainsUnion(decls[D].bases[i].cls)
    \/ \E i \in 1..Len(decls[D].fields) :
          decls[D].fields[i].type.rec # 0 /\ ContainsUnion(decls[D].fields[i].type.rec)

BuiltAtMostOnce == \A D \in Keys : built[D][1] <= 1 /\ built[D][2] <= 1

\* no call in progress is for a key that is in the cache or that an
\* enclosing call is building
NoReentry ==
    /\ \A i \in 1..Len(stack) :
          (IF stack[i].impl THEN objcCache[stack[i].decl] ELSE cache[stack[i].decl]).kind = "none"
    /\ \A i, j \in 1..Len(stack) : i # j => stack[i] # stack[j]

\* what the last call returned is the entry in the cache
ReturnedIsCached ==
    returned.decl # 0 =>
        /\ returned.layout.kind = "layout"
        /\ returned.layout = (IF returned.impl /\ objcCache[returned.decl].kind = "layout"
                              THEN objcCache[returned.decl] ELSE cache[returned.decl])

\* a step leaves every filled entry as it is, and a builder run fills an
\* entry that was missing
CacheStable ==
    \A D \in Keys :
        /\ cache[D].kind = "layout" => cache'[D] = cache[D]
        /\ objcCache[D].kind = "layout" => objcCache'[D] = objcCache[D]
        /\ built'[D][1] # built[D][1] => cache[D].kind = "none" /\ cache'[D].kind = "layout"
        /\ built'[D][2] # built[D][2] =>
              objcCache[D].kind = "none" /\ objcCache'[D].kind = "layout"

\* C6: over any sequence of requests, nested ones included, a builder runs
\* at most once per record: the first request builds and caches, later
\* requests return that cached result, and no record is requested while
\* its own layout is being built.
C6_BuiltOnceAndCached ==
    /\ [](BuiltAtMostOnce /\ NoReentry /\ ReturnedIsCached)
    /\ [][CacheStable]_vars

\* a record built with nested requests for its bases or members is
\* requested again and returned from the cache
C6_Witness ==
    /\ returned.decl # 0 /\ returned.fromCache
    /\ decls[returned.decl].kind = "record"
    /\ Len(Deps(returned.decl)) > 0
    /\ built[returned.decl][1] = 1
    /\ \A i \in 1..Len(Deps(returned.decl)) : built[Deps(returned.decl)[i]][1] = 1

C8_VBPtrIffVBases ==
    \A D \in Keys : (Built(D) /\ cache[D].builder = "Microsoft") =>
        ((cache[D].VBPtrOffset = 0 - 1) <=> (DOMAIN cache[D].VBaseOffsets = {}))

\* a Microsoft class with a vbptr behind a non-virtual base, and a virtual base
C8_Witness ==
    \E D \in Keys :
        /\ Built(D) /\ cache[D].builder = "Microsoft"
        /\ cache[D].VBPtrOffset > 0 /\ DOMAIN cache[D].VBaseOffsets # {}

\* the pointer alignment in chars
PointerAlignInChars == ctx.PointerAlign \div 8

RECURSIVE PackedPointerAlign(_)
\* the pointer alignment as the maximum field alignment in force for D or
\* one of its non-virtual bases lowers it
PackedPointerAlign(D) ==
    LET Pack == IF decls[D].packed THEN 1
                ELSE IF decls[D].maxFieldAlign # 0 THEN decls[D].maxFieldAlign \div 8
                ELSE ctx.PackStruct
        Own == IF Pack # 0 /\ Pack < PointerAlignInChars THEN Pack ELSE PointerAlignInChars
        Below == {PackedPointerAlign(B) : B \in NVBasesOf(D)} \cup {Own}
    IN CHOOSE a \in Below : \A x \in Below : a <= x

\* C9 (as stated): under Microsoft a non-negative vbPtrOffset is a multiple
\* of the pointer alignment.
C9_Original ==
    \A D \in Keys : (Built(D) /\ cache[D].builder = "Microsoft" /\ cache[D].VBPtrOffset >= 0) =>
        cache[D].VBPtrOffset % PointerAlignInChars = 0

\* C9 (amended): under Microsoft a non-negative vbPtrOffset is a multiple
\* of the pointer alignment, or of the maximum field alignment that packing
\* puts in force when that is smaller.
C9_VBPtrAligned ==
    \A D \in Keys : (Built(D) /\ cache[D].builder = "Microsoft" /\ cache[D].VBPtrOffset >= 0) =>
        cache[D].VBPtrOffset % PackedPointerAlign(D) = 0

\* a vbptr injected into the class and then pushed back by a vfptr
C9_Witness ==
    \E D \in Keys :
        /\ Built(D) /\ cache[D].builder = "Microsoft"
        /\ cache[D].VBPtrOffset > 0
        /\ cache[D].HasOwnVFPtr /\ cache[D].BaseSharingVBPtr = 0
        /\ cache[D].VBPtrOffset % PackedPointerAlign(D) = 0

ItaniumClass(D) == Built(D) /\ cache[D].builder = "Itanium" /\ cache[D].cxx

\* the builder's size, rounded up to char alignment, as it stood after field
\* layout and before any virtual base was appended, in chars
FrozenNonVirtualSize(D) ==
    toCharUnitsFromBits(RoundUpToAlignment(cache[D].SizeBeforeVBases, CharAlign))

\* the classes whose tail padding the ABI closes: POD classes under the
\* C++03 tail-padding rule
TailPaddingClosed(D) ==
    ctx.TailPaddingUseRules = "UseTailPaddingUnlessPOD03" /\ isPOD(D)

\* C11 as stated: under Itanium the stored nonVirtualSize of every class is
\* the builder's size, rounded up to char alignment, as it stood after field
\* layout and before any virtual base was appended.
C11_Original ==
    \A D \in Keys : ItaniumClass(D) => cache[D].NonVirtualSize = FrozenNonVirtualSize(D)

\* C11: under Itanium the stored nonVirtualSize of a class is the builder's
\* size, rounded up to char alignment, as it stood after field layout and
\* before any virtual base was appended, unless the ABI's tail-padding rule
\* closes the tail padding of the class (a POD class), whose stored
\* nonVirtualSize is the final size.
C11_NonVirtualSizeFrozen ==
    \A D \in Keys :
        ItaniumClass(D) =>
            cache[D].NonVirtualSize =
                IF TailPaddingClosed(D) THEN cache[D].Size ELSE FrozenNonVirtualSize(D)

\* a class with a virtual base whose stored nonVirtualSize is smaller than
\* its size, and a POD class whose size was rounded past the frozen value
C11_Witness ==
    /\ \E D \in Keys :
          /\ ItaniumClass(D) /\ ~TailPaddingClosed(D)
          /\ getNumVBases(D) # 0
          /\ 0 < cache[D].NonVirtualSize
          /\ cache[D].NonVirtualSize < cache[D].Size
    /\ \E D \in Keys :
          /\ ItaniumClass(D) /\ TailPaddingClosed(D)
          /\ FrozenNonVirtualSize(D) < cache[D].Size

(***************************************************************************)
(* C12: the builder of a plain C record                                    *)
(***************************************************************************)
\* the plain C records that were laid out
PlainRecord(D) == Built(D) /\ ~cache[D].cxx

\* C12 as stated: a plain C record is laid out by the Itanium builder on any
\* target ABI, the Microsoft one included.
C12_Original == \A D \in Keys : PlainRecord(D) => cache[D].builder = "Itanium"

\* C12: a plain C record is laid out by the Itanium builder on every target
\* whose C++ ABI is not Microsoft and, when an external AST source is
\* attached, on the Microsoft targets too; on a Microsoft target without an
\* external source it is laid out by the Microsoft builder.
C12_PlainRecordBuilder ==
    \A D \in Keys :
        PlainRecord(D) =>
            cache[D].builder =
                IF ctx.abi = "Microsoft" /\ ~ctx.hasExternalSource
                THEN "Microsoft" ELSE "Itanium"

\* a plain C record with members was laid out by the Itanium builder on a
\* Microsoft target, the external source having no layout for it
C12_Witness ==
    \E D \in Keys :
        /\ PlainRecord(D) /\ ctx.abi = "Microsoft" /\ ctx.hasExternalSource
        /\ Len(cache[D].FieldOffsets) >= 2
        /\ ~cache[D].external
        /\ cache[D].builder = "Itanium"

(***************************************************************************)
(* C13: the choice of the primary base                                     *)
(***************************************************************************)
RECURSIVE InheritanceOrder(_, _)
\* the base specifiers met by a recursive traversal of the bases of D in
\* inheritance order, each followed by those of its class, from base i on
InheritanceOrder(D, i) ==
    IF i > Len(decls[D].bases) THEN <<>>
    ELSE <<decls[D].bases[i]>> \o InheritanceOrder(decls[D].bases[i].cls, 1)
             \o InheritanceOrder(D, i + 1)

\* the first element of a sequence that is in the set S, or 0
FirstIn(seq, S) ==
    IF \E i \in 1..Len(seq) : seq[i] \in S
    THEN seq[CHOOSE i \in 1..Len(seq) :
                 seq[i] \in S /\ \A j \in 1..(i - 1) : seq[j] \notin S]
    ELSE 0

\* the direct non-virtual bases of D, in declaration order
DirectNonVirtualBases(D) ==
    LET nv == SelectSeq(decls[D].bases, LAMBDA B : ~B.virt)
    IN [i \in 1..Len(nv) |-> nv[i].cls]

\* the nearly empty virtual bases of D in the order the traversal meets them
NearlyEmptyVBases(D) ==
    LET ne == SelectSeq(InheritanceOrder(D, 1), LAMBDA B : B.virt /\ isNearlyEmpty(B.cls))
    IN [i \in 1..Len(ne) |-> ne[i].cls]

\* the virtual bases that are the primary base of some base of D
IndirectPrimaries(D) ==
    {cache[B.cls].PrimaryBase : B \in {X \in SeqToSet(InheritanceOrder(D, 1)) :
                                         cache[X.cls].PrimaryBaseIsVirtual}}

\* The primary base the rule names, as <<class, is virtual>>, where Eligible
\* tells which classes take part in the rule.
PrimaryBaseByRule(D, Eligible) ==
    LET nv == FirstIn(DirectNonVirtualBases(D), Eligible)
        fresh == FirstIn(NearlyEmptyVBases(D), Keys \ IndirectPrimaries(D))
        any == FirstIn(NearlyEmptyVBases(D), Keys)
    IN IF D \notin Eligible THEN <<0, FALSE>>
       ELSE IF nv # 0 THEN <<nv, FALSE>>
       ELSE IF fresh # 0 THEN <<fresh, TRUE>>
       ELSE IF any # 0 THEN <<any, TRUE>>
       ELSE <<0, FALSE>>

StoredPrimaryBase(D) == <<cache[D].PrimaryBase, cache[D].PrimaryBaseIsVirtual>>

\* C13 as stated: the rule is applied to polymorphic classes, and the first
\* direct non-virtual base that is polymorphic is preferred.
C13_Original ==
    \A D \in Keys :
        ItaniumClass(D) =>
            StoredPrimaryBase(D) = PrimaryBaseByRule(D, {X \in Keys : isPolymorphic(X)})

\* C13: the primary base of a dynamic class (one that is polymorphic or has
\* virtual bases) is the first direct non-virtual dynamic base in
\* declaration order if one exists; otherwise the first nearly empty virtual
\* base, in recursive inheritance-order traversal, that is not an indirect
\* primary base; otherwise the first nearly empty virtual base of that
\* traversal; and a class that is not dynamic has no primary base.
C13_PrimaryBaseChoice ==
    \A D \in Keys :
        ItaniumClass(D) =>
            StoredPrimaryBase(D) = PrimaryBaseByRule(D, {X \in Keys : isDynamicClass(X)})

\* a class whose primary base is a nearly empty virtual base that is an
\* indirect primary base, no other one being available
C13_Witness ==
    \E D \in Keys :
        /\ ItaniumClass(D)
        /\ cache[D].PrimaryBaseIsVirtual
        /\ cache[D].PrimaryBase \in IndirectPrimaries(D)
        /\ Len(NearlyEmptyVBases(D)) >= 1

(***************************************************************************)
(* C14: laying out a declaration twice                                     *)
(***************************************************************************)
\* the entry a second run of the builders makes for D, no external source
\* being attached
SecondLayout(D) ==
    IF isRecord(D) THEN NewEntry(D, NoExternalLayout).layout ELSE BuildObjCLayout(D).layout

\* C14: laying out the same declaration a second time yields the stored
\* layout, and no loop of a builder over an unordered container (the
\* vtordisp work set, the base-offset map) could have ended with another
\* result had it taken the elements in another order.
C14_LayoutDeterministic ==
    \A D \in Keys :
        cache[D].kind = "layout" =>
            /\ cache[D].Outcomes = 1
            /\ ~ctx.hasExternalSource => SecondLayout(D) = cache[D]

\* a class was laid out whose builder looped over a work set of two methods
\* and over a base-offset map of two bases
C14_Witness ==
    \E D \in Keys :
        /\ Built(D) /\ cache[D].builder = "Microsoft"
        /\ cache[D].Drawn = {"Work", "Bases"}
        /\ cache[D].VtorDisps # {}

FieldDiags == {d \in diags : d.field # 0}

DiagField(d) == decls[d.decl].fields[d.field]

\* C16 as stated: no diagnostic is about an Objective-C ivar, an anonymous
\* bit-field or a declaration without a valid source location.
C16_Original ==
    \A d \in FieldDiags :
        /\ isRecord(d.decl)
        /\ ~isUnnamedBitfield(DiagField(d))
        /\ DiagField(d).loc

\* C16: no padding or unnecessary-packed diagnostic is about a field that is
\* an Objective-C ivar or a declaration without a valid source location.
C16_NoDiagnosticForIvarOrNoLocation ==
    \A d \in FieldDiags : isRecord(d.decl) /\ DiagField(d).loc

\* member i of D was placed after padding
PaddedField(D, i) ==
    /\ i >= 2 /\ ~decls[D].isUnion
    /\ cache[D].FieldOffsets[i] >
          cache[D].FieldOffsets[i - 1] + getFieldSizeInBits(decls[D].fields[i - 1])

\* the Itanium builder padded before a member without a source location and
\* reported nothing about it
C16_Witness ==
    \E D \in Keys :
        /\ cache[D].kind = "layout" /\ cache[D].builder = "Itanium" /\ ~cache[D].external
        /\ \E i \in 1..Len(decls[D].fields) :
              /\ PaddedField(D, i)
              /\ ~decls[D].fields[i].loc
              /\ ~isBitField(decls[D].fields[i]) /\ ~isBitField(decls[D].fields[i - 1])
              /\ \A d \in FieldDiags : d.decl # D

(***************************************************************************)
(* C17: field offsets of an externally laid out record                     *)
(***************************************************************************)
\* the records whose layout an external source supplied
ExternallyLaidOut(D) == Built(D) /\ cache[D].external

\* a bit-field wider than its type
isWideBitField(FD) == isBitField(FD) /\ FD.width > getTypeInfo(FD.type)[1]

ExternalOffset(D, i) == cache[D].External.FieldOffsets[i]

Qualifies(MD) ==
    /\ MD.isVirtual /\ ~MD.isPure /\ ~MD.isImplicit
    /\ ~MD.isInlineSpecified /\ ~MD.hasInlineBody /\ MD.isUserProvided
    /\ canKeyFunctionBeInline \/ MD.definition # "inline"

QualifyingMethods(RD) ==
    {i \in 1..Len(decls[RD].methods) : Qualifies(decls[RD].methods[i])}

HasNoKeyFunction(RD) ==
    \/ ~isPolymorphic(RD)
    \/ ~decls[RD].externallyVisible
    \/ decls[RD].TSK \in {"TSK_ImplicitInstantiation", "TSK_ExplicitInstantiationDefinition"}
    \/ QualifyingMethods(RD) = {}

KeyFunctionByRule(RD) ==
    IF HasNoKeyFunction(RD) THEN 0
    ELSE CHOOSE i \in QualifyingMethods(RD) : \A j \in QualifyingMethods(RD) : i <= j

\* C18: whenever the resolver ran for a class, what it returned, and what
\* the key-function table holds for any class, is the first method in
\* declaration order that is virtual, not pure, not implicit, not declared
\* inline, without a body in the class, user-provided and (where the ABI
\* forbids inline key functions) without a definition marked inline; it is
\* null when the class is not polymorphic, not externally visible, an
\* implicit or explicit-definition instantiation, or has no such method.
C18_KeyFunctionIsFirstQualifying ==
    /\ keyCall.computed => keyCall.result = KeyFunctionByRule(keyCall.decl)
    /\ \A D \in Keys : KeyFunctions[D] # 0 => KeyFunctions[D] = KeyFunctionByRule(D)

\* the resolver ran for a class whose first method has an out-of-line
\* definition marked inline, on an ABI that forbids inline key functions,
\* and returned the second method
C18_Witness ==
    /\ keyCall.computed /\ keyCall.decl = 2 /\ keyCall.result = 2
    /\ ~canKeyFunctionBeInline
    /\ decls[2].methods[1].isVirtual /\ decls[2].methods[1].definition = "inline"
    /\ ~decls[2].methods[1].isInlineSpecified /\ decls[2].methods[1].isUserProvided

(***************************************************************************)
(* C19: clang_Type_getOffsetOf validates before it asks for a layout       *)
(***************************************************************************)
RECURSIVE ReachedRecords(_)
\* RD and every record reached from it through fields of record type
ReachedRecords(RD) ==
    {RD} \cup UNION {ReachedRecords(decls[RD].fields[i].type.rec) :
                        i \in {j \in 1..Len(decls[RD].fields) :
                                  decls[RD].fields[j].type.k = "record"}}

\* the record is invalid, incomplete or dependent
UnfitRecord(D) == decls[D].invalid \/ ~decls[D].defined \/ decls[D].dependent

\* some field reached from RD has an incomplete or a dependent type
UnfitField(RD) ==
    \E D \in ReachedRecords(RD) : \E i \in 1..Len(decls[D].fields) :
        isIncompleteType(decls[D].fields[i].type) \/ isDependentType(decls[D].fields[i].type)

UnfitParent(PT) == PT.kind # "Record" \/ UnfitRecord(PT.decl) \/ UnfitField(PT.decl)

CXTypeLayoutErrors ==
    {CXTypeLayoutError.Invalid, CXTypeLayoutError.Incomplete, CXTypeLayoutError.Dependent,
     CXTypeLayoutError.NotConstantSize, CXTypeLayoutError.InvalidFieldName}

\* C19: a call of clang_Type_getOffsetOf whose parent type is invalid,
\* incomplete or dependent, or reaches through its fields of record type a
\* field of incomplete or dependent type, returns a negative
\* CXTypeLayoutError code without calling getFieldOffset, and no layout is
\* asked for or built for such a record; getFieldOffset is called only for
\* a parent that passed these checks and a name that lookup resolved to
\* exactly one declaration, a field or an indirect field.
C19_OffsetOfValidatesFirst ==
    /\ (offsetOf.PT.kind # "None" /\ UnfitParent(offsetOf.PT)) =>
          /\ offsetOf.pc = "idle" /\ ~offsetOf.called /\ stack = <<>>
          /\ offsetOf.result < 0 /\ offsetOf.result \in CXTypeLayoutErrors
    /\ offsetOf.called =>
          /\ ~UnfitParent(offsetOf.PT)
          /\ offsetOf.S # NullName
          /\ Len(lookup(offsetOf.PT.decl, offsetOf.S)) = 1
          /\ lookup(offsetOf.PT.decl, offsetOf.S)[1] = offsetOf.VD
          /\ offsetOf.VD.kind \in {"FieldDecl", "IndirectFieldDecl"}
    /\ \A D \in Keys :
          (built[D] # <<0, 0>> \/ \E i \in 1..Len(stack) : stack[i].decl = D) =>
             ~UnfitRecord(D) /\ ~UnfitField(D)

\* the parent is a valid, complete, non-dependent record whose own fields
\* all have complete types, a field two records down is a flexible array,
\* and the call returned CXTypeLayoutError_Incomplete with nothing laid out
C19_Witness ==
    /\ offsetOf.PT = [kind |-> "Record", decl |-> 3] /\ offsetOf.S = "x"
    /\ ~UnfitRecord(3) /\ ~UnfitRecord(2) /\ ~UnfitRecord(1)
    /\ \A i \in 1..Len(decls[3].fields) : ~isIncompleteType(decls[3].fields[i].type)
    /\ \E i \in 1..Len(decls[1].fields) : decls[1].fields[i].type.k = "incarray"
    /\ 1 \in ReachedRecords(3)
    /\ offsetOf.pc = "idle" /\ offsetOf.result = CXTypeLayoutError.Incomplete
    /\ \A D \in Keys : built[D] = <<0, 0>>

(***************************************************************************)
(* C20: the trial-offset loops terminate                                   *)
(***************************************************************************)
\* C20: every trial-offset loop of the Itanium builder terminates: whatever
\* the base or the member and whatever the state of the empty-subobject
\* map when the loop is entered, adding the alignment to the trial offset
\* leads, after finitely many iterations, to an offset that
\* CanPlaceBaseAtOffset / CanPlaceFieldAtOffset accepts.
C20_TrialLoopsTerminate == (trial.pc = "loop") ~> (trial.pc = "placed")

\* a loop that was entered with two conflicting empty subobjects in the map
\* moved the offset twice and then placed the subobject beyond both
C20_Witness ==
    /\ trial.pc = "placed" /\ trial.steps = 2
    /\ trial.Align > 0 /\ trial.Offset = 2 * trial.Align
    /\ trial.Offset > 0

(***************************************************************************)
(* C21: the map changes only on a successful placement                     *)
(***************************************************************************)
\* the classes whose layout the Itanium builder made with a map
Mapped == {D \in Keys : Built(D) /\ cache[D].builder = "Itanium" /\ cache[D].cxx}

RECURSIVE BaseSubobjectPart(_, _), MemberPart(_, _)
\* every <<offset, class>> a base subobject of class C at offset O can hold:
\* C itself, its non-virtual bases, a virtual primary base, and its members
BaseSubobjectPart(C, O) ==
    {<<O, C>>}
    \cup UNION {BaseSubobjectPart(B, O + cache[C].BaseOffsets[B]) : B \in NVBasesOf(C)}
    \cup (IF cache[C].PrimaryBaseIsVirtual
          THEN BaseSubobjectPart(cache[C].PrimaryBase, O) ELSE {})
    \cup UNION {MemberPart(decls[C].fields[i], O + getFieldOffsetInChars(cache[C], i)) :
                i \in {j \in 1..Len(decls[C].fields) : ~isBitField(decls[C].fields[j])}}

\* every <<offset, class>> a member FD at offset O can hold: complete
\* objects of its record type, one per array element
MemberPart(FD, O) ==
    LET RD == getBaseElementRecord(FD.type)
        Elements == IF FD.type.k = "record" THEN {0}
                    ELSE IF FD.type.k = "array" THEN 0..(FD.type.n - 1) ELSE {}
    IN IF RD = 0 THEN {}
       ELSE UNION {BaseSubobjectPart(RD, O + I * cache[RD].Size)
                   \cup UNION {BaseSubobjectPart(V, O + I * cache[RD].Size
                                                     + cache[RD].VBaseOffsets[V]) :
                               V \in VBasesOf(RD)}
                   : I \in Elements}

\* the empty subobjects of what the call c was asked to place
EmptySubobjectsPlaced(c) ==
    {p \in (IF c.base THEN BaseSubobjectPart(c.g[c.Info].Class, c.Offset)
            ELSE MemberPart(c.FD, c.Offset)) : isEmpty(p[2])}

\* the call c kept the table, or added to it nothing but empty subobjects
\* of what it placed and moved MaxEmptyClassOffset up to the added offsets
FramedCall(c) ==
    IF ~c.Allowed THEN c.After = c.Before /\ c.MaxAfter = c.MaxBefore
    ELSE /\ c.Before \subseteq c.After
         /\ (c.After \ c.Before) \subseteq EmptySubobjectsPlaced(c)
         /\ c.MaxAfter >= c.MaxBefore
         /\ \A p \in c.After \ c.Before : p[1] <= c.MaxAfter
         /\ c.MaxAfter # c.MaxBefore => \E p \in c.After \ c.Before : p[1] = c.MaxAfter

\* C21: the empty-subobject map is modified only by a successful placement.
\* The table starts empty; between two CanPlaceBaseAtOffset /
\* CanPlaceFieldAtOffset calls and after the last one it does not change; a
\* call that returns false leaves EmptyClassOffsets and MaxEmptyClassOffset
\* as they were; a call that returns true keeps every entry and adds
\* entries only at offsets of empty subobjects of the base or member it
\* placed.
C21_MapChangesOnlyOnPlacement ==
    \A D \in Mapped :
       LET Calls == cache[D].Calls
           n == Len(Calls)
       IN /\ \A i \in 1..n : FramedCall(Calls[i])
          /\ n > 0 => Calls[1].Before = {} /\ Calls[1].MaxBefore = 0
          /\ \A i \in 1..(n - 1) :
                /\ Calls[i + 1].Before = Calls[i].After
                /\ Calls[i + 1].MaxBefore = Calls[i].MaxAfter
          /\ cache[D].EmptyClassOffsets = (IF n = 0 THEN {} ELSE Calls[n].After)
          /\ cache[D].MaxEmptyClassOffset = (IF n = 0 THEN 0 ELSE Calls[n].MaxAfter)

\* a layout in which a call was refused with entries in the table, and a
\* later call was accepted and added an entry beyond offset zero
C21_Witness ==
    \E D \in Mapped :
       \E i, j \in 1..Len(cache[D].Calls) :
          /\ i < j
          /\ ~cache[D].Calls[i].Allowed /\ cache[D].Calls[i].Before # {}
          /\ cache[D].Calls[j].Allowed
          /\ \E p \in cache[D].Calls[j].After \ cache[D].Calls[j].Before : p[1] > 0

(***************************************************************************)
(* C22: the two optimisations of the map do not change an answer           *)
(***************************************************************************)
\* the empty subobjects the traversal of the call c walks when nothing is
\* cut off: no offset of what c places reaches past its end
EveryEmptySubobjectVisited(c) ==
    LET RD == IF c.base THEN c.g[c.Info].Class ELSE getBaseElementRecord(c.FD.type)
        Count == IF ~c.base /\ c.FD.type.k = "array" THEN c.FD.type.n ELSE 1
        PastTheEnd == IF RD = 0 THEN c.Offset + 1
                      ELSE c.Offset + Count * cache[RD].Size + 1
    IN {p \in (IF c.base
               THEN BaseSubobjectsVisited(PastTheEnd, c.g, c.Info, c.Offset, TRUE)
               ELSE FieldSubobjectsVisited(PastTheEnd, c.FD, c.Offset)) :
          isEmpty(p[2])}

\* the table of a map that records every visited empty subobject, before
\* call number i of the layout of D
FullTable(D, i) ==
    UNION {EveryEmptySubobjectVisited(cache[D].Calls[j]) :
           j \in {k \in 1..(i - 1) : cache[D].Calls[k].Allowed}}

\* the answer of a check that always consults that table
FullAnswer(D, i) == EveryEmptySubobjectVisited(cache[D].Calls[i]) \cap FullTable(D, i) = {}

TypesContained(D) ==
    {p[2] : p \in UNION ({BaseSubobjectPart(decls[D].bases[i].cls, 0) :
                            i \in 1..Len(decls[D].bases)}
                         \cup {BaseSubobjectPart(V, 0) : V \in VBasesOf(D)}
                         \cup {MemberPart(decls[D].fields[i], 0) :
                                 i \in 1..Len(decls[D].fields)})}

\* C23: the class under layout contains no empty types exactly when
\* SizeOfLargestEmptySubobject is zero, and then every CanPlaceBaseAtOffset
\* and CanPlaceFieldAtOffset call returns "no conflict" and the offset table
\* is empty after every call and at the end of the layout.
C23_NoEmptyTypesNoConflict ==
    \A D \in Mapped :
       /\ (cache[D].SizeOfLargestEmptySubobject = 0)
             <=> (\A RD \in TypesContained(D) : ~isEmpty(RD))
       /\ cache[D].SizeOfLargestEmptySubobject = 0 =>
             /\ \A i \in 1..Len(cache[D].Calls) :
                   /\ cache[D].Calls[i].Allowed
                   /\ cache[D].Calls[i].After = {}
             /\ cache[D].EmptyClassOffsets = {}
             /\ cache[D].MaxEmptyClassOffset = 0

\* a class without empty types that placed a base and a member of the same
\* class type, each at the first offset tried
C23_Witness ==
    \E D \in Mapped :
       /\ cache[D].SizeOfLargestEmptySubobject = 0
       /\ \E i, j \in 1..Len(cache[D].Calls) :
             /\ i < j
             /\ cache[D].Calls[i].base /\ ~cache[D].Calls[j].base
             /\ getBaseElementRecord(cache[D].Calls[j].FD.type)
                   = cache[D].Calls[i].g[cache[D].Calls[i].Info].Class
             /\ cache[D].Calls[j].Offset > 0
       /\ Len(cache[D].Calls) = Len(decls[D].bases) + Len(decls[D].fields)

(***************************************************************************)
(* C24: the nodes of the BaseSubobjectInfo graph                           *)
(***************************************************************************)
\* the nodes of the graph of D for the class C, virtual or not
NodesOf(D, C, IsVirtual) ==
    {n \in 1..Len(cache[D].g) :
        cache[D].g[n].Class = C /\ cache[D].g[n].IsVirtual = IsVirtual}

RECURSIVE OccurrencesIn(_, _, _)
\* how many base subobjects of class C the non-virtual part of an X holds
\* through the direct bases of X from number i on
OccurrencesIn(X, C, i) ==
    IF i > Len(decls[X].bases) THEN 0
    ELSE (IF decls[X].bases[i].virt THEN 0
          ELSE (IF decls[X].bases[i].cls = C THEN 1 ELSE 0)
               + OccurrencesIn(decls[X].bases[i].cls, C, 1))
         + OccurrencesIn(X, C, i + 1)

RECURSIVE OccurrencesInVBases(_, _, _)
\* the same through the virtual bases of D from number i on
OccurrencesInVBases(D, C, i) ==
    IF i > Len(getVBases(D)) THEN 0
    ELSE OccurrencesIn(getVBases(D)[i], C, 1) + OccurrencesInVBases(D, C, i + 1)

\* how often C occurs as a non-virtual base in the hierarchy of D
Occurrences(D, C) == OccurrencesIn(D, C, 1) + OccurrencesInVBases(D, C, 1)

\* C24: after ComputeBaseSubobjectInfo for a class, exactly one
\* BaseSubobjectInfo node exists for each direct or indirect virtual base
\* (and VirtualBaseInfo names it), none for a class that is no virtual
\* base, and as many non-virtual nodes exist for a class as it occurs as a
\* non-virtual base in the hierarchy, the direct ones named by
\* NonVirtualBaseInfo.
C24_OneNodePerBaseSubobject ==
    \A D \in Mapped :
       /\ \A C \in Keys :
             /\ Cardinality(NodesOf(D, C, TRUE)) = (IF C \in VBasesOf(D) THEN 1 ELSE 0)
             /\ Cardinality(NodesOf(D, C, FALSE)) = Occurrences(D, C)
       /\ DOMAIN cache[D].VirtualBaseInfo = VBasesOf(D)
       /\ \A V \in VBasesOf(D) : cache[D].VirtualBaseInfo[V] \in NodesOf(D, V, TRUE)
       /\ DOMAIN cache[D].NonVirtualBaseInfo = NVBasesOf(D)
       /\ \A B \in NVBasesOf(D) : cache[D].NonVirtualBaseInfo[B] \in NodesOf(D, B, FALSE)

\* a class with a virtual base that three of its base subobjects name and
\* with a non-virtual base class that occurs twice
C24_Witness ==
    \E D \in Mapped :
       /\ \E V \in VBasesOf(D) :
             Cardinality({n \in 1..Len(cache[D].g) :
                            \E i \in 1..Len(cache[D].g[n].Bases) :
                               cache[D].g[n].Bases[i] = cache[D].VirtualBaseInfo[V]}) >= 2
       /\ \E C \in Keys : Cardinality(NodesOf(D, C, FALSE)) = 2

(***************************************************************************)
(* C25: claims of primary virtual bases                                    *)
(***************************************************************************)
\* whenever the Derived pointer of a node P names X, X names P as its
\* primary virtual base
BackPointersAgree(D) ==
    \A P \in 1..Len(cache[D].g) :
       cache[D].g[P].Derived # 0 =>
          cache[D].g[cache[D].g[P].Derived].PrimaryVirtualBaseInfo = P

\* C25 (as stated): during graph construction a virtual-base node whose
\* Derived pointer is set is never claimed again by another subobject, so
\* every node has a unique claimant, and whenever P.Derived = X then
\* X.PrimaryVirtualBaseInfo = P.
C25_Original ==
    \A D \in Mapped :
       /\ \A i \in 1..Len(cache[D].Claims) :
             cache[D].Claims[i].made => cache[D].Claims[i].was = 0
       /\ \A P \in 1..Len(cache[D].g) :
             Cardinality({X \in 1..Len(cache[D].g) :
                            cache[D].g[X].PrimaryVirtualBaseInfo = P}) <= 1
       /\ BackPointersAgree(D)

\* C25 (amended): during graph construction a virtual-base node that is
\* already claimed when a later subobject naming it as its primary virtual
\* base is reached is not claimed again: that subobject leaves the claim
\* untouched.  Only a subobject whose own base traversal created the node
\* takes the claim over, from a base subobject beneath it.  Whenever
\* P.Derived = X then X.PrimaryVirtualBaseInfo = P.
C25_ClaimedNodeKeptByLaterSubobjects ==
    \A D \in Mapped :
       /\ \A i \in 1..Len(cache[D].Claims) :
             LET c == cache[D].Claims[i]
             IN /\ c.P < c.by => (c.made <=> c.was = 0)
                /\ ~c.made => c.P < c.by /\ cache[D].g[c.by].PrimaryVirtualBaseInfo = 0
                /\ c.made /\ c.was # 0 => c.by < c.P /\ c.by < c.was
       /\ BackPointersAgree(D)

\* a graph in which a subobject found its primary virtual base claimed and
\* left it alone, and one in which a subobject took the claim over from a
\* base beneath it
C25_Witness ==
    /\ \E D \in Mapped : \E i \in 1..Len(cache[D].Claims) : ~cache[D].Claims[i].made
    /\ \E D \in Mapped :
          \E i \in 1..Len(cache[D].Claims) :
             /\ cache[D].Claims[i].made /\ cache[D].Claims[i].was # 0
             /\ cache[D].g[cache[D].Claims[i].P].Derived = cache[D].Claims[i].by

(***************************************************************************)
(* C26: every base gets its offset once                                    *)
(***************************************************************************)
\* the assertions of the Itanium builder about base offsets
BaseOffsetAsserts ==
    {"base offset already exists!", "vbase offset already exists!",
     "primary vbase offset already exists!", "Did not find base offset!",
     "Trying to lay out a primary virtual base!", "vbase already visited!"}

\* X is the node of a direct non-virtual base of D
DirectNode(D, X) ==
    \E B \in DOMAIN cache[D].NonVirtualBaseInfo : cache[D].NonVirtualBaseInfo[B] = X

\* C26: after the Itanium class layout completes, Bases holds an offset for
\* every direct non-virtual base and for nothing else, VBases holds an
\* offset for every direct or indirect virtual base and for nothing else,
\* and none of the assertions about base offsets failed on the way: no
\* offset was inserted twice, so a virtual base shared along several paths
\* was placed once, by LayoutVirtualBase or as a claimed primary virtual
\* base at the offset of its claimant.
C26_EveryBaseOffsetOnce ==
    \A D \in Mapped :
       /\ DOMAIN cache[D].BaseOffsets = NVBasesOf(D)
       /\ DOMAIN cache[D].VBaseOffsets = VBasesOf(D)
       /\ cache[D].Asserts \cap BaseOffsetAsserts = {}
       /\ \A P \in 1..Len(cache[D].g) :
             LET X == cache[D].g[P].Derived
             IN X # 0 /\ DirectNode(D, X)
                   => cache[D].VBaseOffsets[cache[D].g[P].Class]
                         = cache[D].BaseOffsets[cache[D].g[X].Class]

\* a class with a virtual base that two of its bases share and that one of
\* them, a direct non-virtual base, holds as its primary virtual base
C26_Witness ==
    \E D \in Mapped :
       \E P \in 1..Len(cache[D].g) :
          /\ cache[D].g[P].Derived # 0
          /\ DirectNode(D, cache[D].g[P].Derived)
          /\ Cardinality({n \in 1..Len(cache[D].g) :
                            \E i \in 1..Len(cache[D].g[n].Bases) :
                               cache[D].g[n].Bases[i] = P}) >= 2
          /\ cache[D].BaseOffsets[cache[D].g[cache[D].g[P].Derived].Class] > 0

(***************************************************************************)
(* C27: bit-fields and the storage units of their type                     *)
(***************************************************************************)
\* the records the Itanium builder laid out on its own, without a maximum
\* field alignment from #pragma pack
UnpackedItanium ==
    {D \in Keys : /\ Built(D) /\ cache[D].builder = "Itanium" /\ ~cache[D].external
                  /\ decls[D].maxFieldAlign = 0 /\ ctx.PackStruct = 0}

\* the bit-fields of D that are not wider than their type
NarrowBitFields(D) ==
    {i \in 1..Len(decls[D].fields) :
        /\ isBitField(decls[D].fields[i])
        /\ decls[D].fields[i].width <= decls[D].fields[i].type.size}

\* field number i of D lies within one storage unit of the size of its type
WithinOneUnit(D, i) ==
    LET FD == decls[D].fields[i]
        Offset == cache[D].FieldOffsets[i]
    IN FD.width > 0 =>
          Offset \div FD.type.size = (Offset + FD.width - 1) \div FD.type.size

TypeAlignedBitFields(D) ==
    {i \in NarrowBitFields(D) :
        ctx.useBitFieldTypeAlignment /\ ~decls[D].packed /\ ~decls[D].fields[i].packed}

\* where the data ended before field number i of D was placed, in bits
EndOfPrevious(D, i) ==
    IF i = 1 \/ decls[D].isUnion THEN 0
    ELSE IF isBitField(decls[D].fields[i - 1])
    THEN cache[D].FieldOffsets[i - 1] + decls[D].fields[i - 1].width
    ELSE cache[D].FieldOffsets[i - 1] + getTypeInfo(decls[D].fields[i - 1].type)[1]

DeclaresFreshVirtualMethod(D) ==
    \E i \in 1..Len(decls[D].methods) :
       decls[D].methods[i].isVirtual /\ decls[D].methods[i].overridden = {}

\* C28: under Microsoft, a dynamic class with no primary base has its own
\* vfptr if and only if it declares at least one virtual method that
\* overrides nothing; and in the completed layouts of both builders
\* HasOwnVFPtr and a primary base never hold together.
C28_OwnVFPtrOrPrimaryBase ==
    \A D \in Keys :
       Built(D) /\ cache[D].cxx =>
          /\ (cache[D].builder = "Microsoft" /\ isDynamicClass(D)
                 /\ cache[D].PrimaryBase = 0)
                => (cache[D].HasOwnVFPtr <=> DeclaresFreshVirtualMethod(D))
          /\ ~(cache[D].HasOwnVFPtr /\ cache[D].PrimaryBase # 0)

\* under Microsoft a dynamic class without a primary base and without a
\* vfptr of its own, one with a vfptr of its own, and one with a primary
\* base that declares a virtual method overriding nothing
C28_Witness ==
    /\ ctx.abi = "Microsoft"
    /\ \E D, E, F \in Keys :
          /\ Built(D) /\ Built(E) /\ Built(F)
          /\ isDynamicClass(D) /\ cache[D].PrimaryBase = 0 /\ ~cache[D].HasOwnVFPtr
          /\ isDynamicClass(E) /\ cache[E].PrimaryBase = 0 /\ cache[E].HasOwnVFPtr
          /\ cache[F].PrimaryBase # 0 /\ DeclaresFreshVirtualMethod(F)

(***************************************************************************)
(* C29: the vtordisp set is closed and the work loop ends                  *)
(***************************************************************************)
RECURSIVE NonVirtualBasesOf(_)
\* the class X and the classes reachable from it through non-virtual bases
NonVirtualBasesOf(X) ==
    {X} \cup UNION {NonVirtualBasesOf(decls[X].bases[i].cls) :
                    i \in {j \in 1..Len(decls[X].bases) : ~decls[X].bases[j].virt}}

\* every virtual base of RD that is in Set, or reaches a class of Set
\* through non-virtual bases, is in Set
ClosedVtorDispSet(Set, RD) ==
    \A V \in SeqToSet(getVBases(RD)) : NonVirtualBasesOf(V) \cap Set # {} => V \in Set

\* C29: the set computeVtorDispSet returns is closed: it holds every virtual
\* base of the class that is in it or that reaches a class of the set through
\* non-virtual bases, in whatever order the virtual bases are re-checked
\* and whatever method the work loop draws; and a work loop that has begun
\* comes to its end.
C29_VtorDispSetClosed ==
    /\ [](vtor.pc = "done" => ClosedVtorDispSet(vtor.HasVtordispSet, vtor.RD))
    /\ (vtor.pc = "work" ~> vtor.pc = "recheck")

\* a class with a constructor overrides a function of a non-virtual base of
\* a base of one of its virtual bases: the work loop took several steps, and
\* the re-check alone put that virtual base into the returned set
C29_Witness ==
    /\ vtor.pc = "done"
    /\ decls[vtor.RD].hasUserDeclaredCtorOrDtor
    /\ \E MD \in VtorDispWorkSeed(vtor.RD) : decls[MD[1]].methods[MD[2]].overridden # {}
    /\ \E V \in SeqToSet(getVBases(vtor.RD)) \cap vtor.HasVtordispSet :
          /\ \A P \in VtableParents(VtorDispWorkSeed(vtor.RD)) : V \notin P
          /\ \A i \in 1..Len(decls[vtor.RD].bases) :
                V \notin cache[decls[vtor.RD].bases[i].cls].VtorDisps
          /\ \E i \in 1..Len(decls[V].bases) :
                /\ ~decls[V].bases[i].virt
                /\ decls[V].bases[i].cls \notin vtor.HasVtordispSet

(***************************************************************************)
(* C30: the members of a record do not overlap                             *)
(***************************************************************************)
\* the bits member number i of D occupies: the declared width of a
\* bit-field, the size of the type of another member
StorageBits(D, i) ==
    IF isBitField(decls[D].fields[i]) THEN decls[D].fields[i].width
    ELSE getTypeInfo(decls[D].fields[i].type)[1]

\* the bit ranges of the members number i and j of D have no bit in common
DisjointStorage(D, i, j) ==
    LET Oi == cache[D].FieldOffsets[i]
        Oj == cache[D].FieldOffsets[j]
    IN \/ StorageBits(D, i) = 0 \/ StorageBits(D, j) = 0
       \/ Oi + StorageBits(D, i) <= Oj
       \/ Oj + StorageBits(D, j) <= Oi

\* the records that are no union and were laid out without external source
OwnLayouts == {D \in Keys : Built(D) /\ ~decls[D].isUnion /\ ~cache[D].external}

\* C30 (as stated): in a record that is no union and is laid out without an
\* external layout source, the bit ranges [offset, offset + size) of two distinct
\* members, with the declared width of a bit-field and the size of the type
\* of another member as size, are disjoint, under both builders.
C30_Original ==
    \A D \in OwnLayouts :
       \A i, j \in 1..Len(decls[D].fields) : i < j => DisjointStorage(D, i, j)

\* the bits the builder gives member number i of D: the Microsoft builder
\* clamps the width of a bit-field to the size of its type
ClampedStorageBits(D, i) ==
    IF isBitField(decls[D].fields[i]) /\ cache[D].builder = "Microsoft"
    THEN Min(decls[D].fields[i].width, getTypeInfo(decls[D].fields[i].type)[1])
    ELSE StorageBits(D, i)

\* C30 (amended): in a record that is no union and is laid out without an
\* external layout source, the bit ranges [offset, offset + size) of two
\* distinct members are disjoint under both builders, where the size is the
\* size of the type of a member that is no bit-field and the declared width
\* of a bit-field, taken as at most the size of its type under the
\* Microsoft builder, which clamps the width of a wider bit-field.
C30_ClampedFieldsDoNotOverlap ==
    \A D \in OwnLayouts :
       \A i, j \in 1..Len(decls[D].fields) :
          i < j =>
             LET Oi == cache[D].FieldOffsets[i]
                 Oj == cache[D].FieldOffsets[j]
             IN \/ ClampedStorageBits(D, i) = 0 \/ ClampedStorageBits(D, j) = 0
                \/ Oi + ClampedStorageBits(D, i) <= Oj
                \/ Oj + ClampedStorageBits(D, j) <= Oi

\* the Microsoft builder laid out a record of three members: a bit-field
\* wider than its type, clamped, with the next member right behind the
\* clamped bits and inside the declared ones, and a last bit-field
C30_Witness ==
    \E D \in OwnLayouts :
       /\ cache[D].builder = "Microsoft"
       /\ Len(decls[D].fields) = 3
       /\ isBitField(decls[D].fields[1])
       /\ ClampedStorageBits(D, 1) < StorageBits(D, 1)
       /\ StorageBits(D, 2) > 0
       /\ cache[D].FieldOffsets[2] = cache[D].FieldOffsets[1] + ClampedStorageBits(D, 1)
       /\ ~DisjointStorage(D, 1, 2)
       /\ isBitField(decls[D].fields[3]) /\ StorageBits(D, 3) > 0

====
